---- MODULE Spec2Model ----
(***************************************************************************)
(* Client-side protocol layer of the item shop: the shop page's            *)
(* handlePurchase, the CLI's purchaseItem, the admin scripts that build    *)
(* initialize_shop and add_item, and the chain they talk to.               *)
(*                                                                         *)
(* Every await of the source is a suspension point: a run sits in pc = X   *)
(* while the call X is outstanding, and the action XReturn(r) is the code  *)
(* that runs when the call returns or throws, up to the next await.        *)
(***************************************************************************)
EXTENDS Integers, Sequences, FiniteSets, TLC

(***************************************************************************)
(* Bounds of the model.                                                    *)
(***************************************************************************)
\* purchase attempts in one behaviour (they may overlap)
MaxRuns == 2
\* admin script invocations in one behaviour
MaxAdminJobs == 3
\* records a PurchaseHistory account has room for
MaxPurchases == 2
\* lamports the buyer holds initially
InitialBalance == 8
\* significand bits of a JS number; stands for the 53 bits of an IEEE-754
\* double, scaled down so that integers beyond the exact range are reachable
MantissaBits == 2

ItemIds == {1, 2}
\* the (id, price in lamports) the admin gives in a metadata file
MetadataFiles == {[id |-> 1, price |-> 4]}
\* the (id, price in lamports) the admin gives on the command line
AddItemArgs == {[id |-> 2, price |-> 5]}

(***************************************************************************)
(* Bytes, keys and addresses.                                              *)
(***************************************************************************)
PUBKEY_LEN == 32

\* a 32-byte public key whose bytes are all n
KeyBytes(n) == [i \in 1..PUBKEY_LEN |-> n]

\* new PublicKey(bytes): an address that is not derived from a program
PublicKey(bytes) == [seeds |-> <<bytes>>, owner |-> <<>>]

\* PublicKey.findProgramAddressSync(seeds, programId)[0]: the hash is
\* modelled as the injective pair of its inputs
FindProgramAddress(seeds, programId) == [seeds |-> seeds, owner |-> programId]

ProgramIdBytes == KeyBytes(9)
SystemProgramId == PublicKey(KeyBytes(0))
ComputeBudgetProgramId == PublicKey(KeyBytes(3))
ShopProgramId == PublicKey(ProgramIdBytes)

AdminKeyBytes == KeyBytes(7)
BuyerKeyBytes == KeyBytes(1)
AdminPublicKey == PublicKey(AdminKeyBytes)
BuyerPublicKey == PublicKey(BuyerKeyBytes)
NoKey == [seeds |-> <<>>, owner |-> <<>>]

\* the keys the file behind ADMIN_WALLET_PATH (./wallets/admin.json) can hold
\* on the machine the purchase script runs on: the key of the shop's admin
\* or the key of some other keypair
AdminWalletFiles == {AdminPublicKey, PublicKey(KeyBytes(5))}

\* Buffer.from('shop'), Buffer.from('item'), Buffer.from('history')
SeedShop == <<115, 104, 111, 112>>
SeedItem == <<105, 116, 101, 109>>
SeedHistory == <<104, 105, 115, 116, 111, 114, 121>>

RECURSIVE LE(_, _)
\* n as `width` little-endian bytes (writeBigUInt64LE, writeUInt32LE)
LE(n, width) == IF width = 0 THEN <<>> ELSE <<n % 256>> \o LE(n \div 256, width - 1)

getShopPDA == FindProgramAddress(<<SeedShop>>, ProgramIdBytes)
getItemPDA(id) == FindProgramAddress(<<SeedItem, LE(id, 8)>>, ProgramIdBytes)
getHistoryPDA(buyer) == FindProgramAddress(<<SeedHistory, buyer.seeds[1]>>, ProgramIdBytes)

(***************************************************************************)
(* JS numbers.                                                             *)
(***************************************************************************)
RECURSIVE Pow2(_)
Pow2(n) == IF n = 0 THEN 1 ELSE 2 * Pow2(n - 1)

RECURSIVE UlpOf(_, _)
\* the spacing of representable numbers at x
UlpOf(x, unit) == IF x < unit * Pow2(MantissaBits) THEN unit ELSE UlpOf(x, 2 * unit)

\* Number(bigint), and the number JSON.parse gives for an integer: the
\* nearest representable number, ties to the even significand
ToNumber(x) ==
    LET unit == UlpOf(x, 1)
        q == x \div unit
        rem == x % unit
    IN  IF 2 * rem > unit \/ (2 * rem = unit /\ q % 2 = 1)
        THEN (q + 1) * unit
        ELSE q * unit

(***************************************************************************)
(* Instructions and transactions.                                          *)
(***************************************************************************)
INSTRUCTION_DISCRIMINATORS ==
    [firstPurchase |-> <<109, 212, 45, 217, 228, 42, 205, 63>>,
     subsequentPurchase |-> <<223, 75, 242, 206, 210, 168, 187, 166>>]
InitializeShopDiscriminator == <<76, 158, 246, 22, 47, 236, 107, 186>>
AddItemDiscriminator == <<225, 38, 79, 147, 116, 142, 147, 57>>

ComputeUnits == 1000000

AccountMeta(pubkey, isSigner, isWritable) ==
    [pubkey |-> pubkey, isSigner |-> isSigner, isWritable |-> isWritable]

\* ComputeBudgetProgram.setComputeUnitLimit({units})
setComputeUnitLimit(units) ==
    [programId |-> ComputeBudgetProgramId, keys |-> <<>>, data |-> <<2>> \o LE(units, 4)]

\* variant: the admin and history references change places
PagePurchaseKeysHistoryFirst(buyer, shopPDA, itemPDA, adminPubkey, historyPDA) ==
    << AccountMeta(buyer, TRUE, TRUE),
       AccountMeta(shopPDA, FALSE, FALSE),
       AccountMeta(itemPDA, FALSE, FALSE),
       AccountMeta(historyPDA, FALSE, TRUE),
       AccountMeta(adminPubkey, FALSE, TRUE),
       AccountMeta(SystemProgramId, FALSE, FALSE) >>

\* the keys of a purchase instruction as the shop page writes them
PagePurchaseKeys(buyer, shopPDA, itemPDA, adminPubkey, historyPDA) ==
    << AccountMeta(buyer, TRUE, TRUE),
       AccountMeta(shopPDA, FALSE, FALSE),
       AccountMeta(itemPDA, FALSE, FALSE),
       AccountMeta(adminPubkey, FALSE, TRUE),
       AccountMeta(historyPDA, FALSE, TRUE),
       AccountMeta(SystemProgramId, FALSE, FALSE) >>

\* variant: the instruction name does not follow historyExists
PageBuildTransactionFirstOnly(buyer, adminPubkey, itemId, historyExists) ==
    << setComputeUnitLimit(ComputeUnits),
       [programId |-> ShopProgramId,
        keys |-> PagePurchaseKeys(buyer, getShopPDA, getItemPDA(itemId),
                                  adminPubkey, getHistoryPDA(buyer)),
        data |-> INSTRUCTION_DISCRIMINATORS["firstPurchase"]] >>

\* handlePurchase: new Transaction(), the compute budget instruction, then
\* the purchase instruction chosen by historyExists
PageBuildTransaction(buyer, adminPubkey, itemId, historyExists) ==
    LET instructionName == IF historyExists THEN "subsequentPurchase" ELSE "firstPurchase"
        dataLayout == INSTRUCTION_DISCRIMINATORS[instructionName]
    IN  << setComputeUnitLimit(ComputeUnits),
           [programId |-> ShopProgramId,
            keys |-> PagePurchaseKeys(buyer, getShopPDA, getItemPDA(itemId),
                                      adminPubkey, getHistoryPDA(buyer)),
            data |-> dataLayout] >>

\* variant: every name is encoded as first_purchase
CoderEncodeFirstPurchase(name) == INSTRUCTION_DISCRIMINATORS["firstPurchase"]

\* program.coder.instruction.encode(name, {}): the discriminator of the IDL
\* and no argument bytes
CoderEncode(name) == INSTRUCTION_DISCRIMINATORS[name]

\* purchaseItem: the same transaction, with one branch per instruction and
\* the key of the admin wallet file the script loaded when it started
CliBuildTransaction(buyer, adminPublicKey, itemId, historyExists) ==
    LET shopPDA == getShopPDA
        itemPDA == getItemPDA(itemId)
        historyPDA == getHistoryPDA(buyer)
    IN  IF historyExists
        THEN << setComputeUnitLimit(ComputeUnits),
                [programId |-> ShopProgramId,
                 keys |-> << AccountMeta(buyer, TRUE, TRUE),
                             AccountMeta(shopPDA, FALSE, FALSE),
                             AccountMeta(itemPDA, FALSE, FALSE),
                             AccountMeta(adminPublicKey, FALSE, TRUE),
                             AccountMeta(historyPDA, FALSE, TRUE),
                             AccountMeta(SystemProgramId, FALSE, FALSE) >>,
                 data |-> CoderEncode("subsequentPurchase")] >>
        ELSE << setComputeUnitLimit(ComputeUnits),
                [programId |-> ShopProgramId,
                 keys |-> << AccountMeta(buyer, TRUE, TRUE),
                             AccountMeta(shopPDA, FALSE, FALSE),
                             AccountMeta(itemPDA, FALSE, FALSE),
                             AccountMeta(adminPublicKey, FALSE, TRUE),
                             AccountMeta(historyPDA, FALSE, TRUE),
                             AccountMeta(SystemProgramId, FALSE, FALSE) >>,
                 data |-> CoderEncode("firstPurchase")] >>

\* variant: the transaction holds the initialize_shop instruction alone
InitializeShopTransactionBare(walletKey) ==
    << [programId |-> ShopProgramId,
        keys |-> << AccountMeta(walletKey, TRUE, TRUE),
                    AccountMeta(getShopPDA, FALSE, TRUE),
                    AccountMeta(SystemProgramId, FALSE, FALSE) >>,
        data |-> InitializeShopDiscriminator] >>

\* initializeShop: new Transaction().add(ix), then the initialize_shop instruction
InitializeShopTransaction(walletKey) ==
    << setComputeUnitLimit(ComputeUnits),
       [programId |-> ShopProgramId,
        keys |-> << AccountMeta(walletKey, TRUE, TRUE),
                    AccountMeta(getShopPDA, FALSE, TRUE),
                    AccountMeta(SystemProgramId, FALSE, FALSE) >>,
        data |-> InitializeShopDiscriminator] >>

\* Buffer.from(string): the bytes of the metadata URI (the URIs of the model
\* are given as byte sequences)
AddItemData(id, price, uriBytes) ==
    AddItemDiscriminator \o LE(id, 8) \o LE(price, 8) \o LE(Len(uriBytes), 4) \o uriBytes

\* an addItem whose item account is derived from the price
AddItemTransactionItemOfPrice(walletKey, id, price, uriBytes) ==
    << setComputeUnitLimit(ComputeUnits),
       [programId |-> ShopProgramId,
        keys |-> << AccountMeta(walletKey, TRUE, TRUE),
                    AccountMeta(getShopPDA, FALSE, TRUE),
                    AccountMeta(getItemPDA(price), FALSE, TRUE),
                    AccountMeta(SystemProgramId, FALSE, FALSE) >>,
        data |-> AddItemData(id, price, uriBytes)] >>

\* addItem (shop client): the transaction starts as new Transaction().add(ix)
AddItemTransaction(walletKey, id, price, uriBytes) ==
    << setComputeUnitLimit(ComputeUnits),
       [programId |-> ShopProgramId,
        keys |-> << AccountMeta(walletKey, TRUE, TRUE),
                    AccountMeta(getShopPDA, FALSE, TRUE),
                    AccountMeta(getItemPDA(id), FALSE, TRUE),
                    AccountMeta(SystemProgramId, FALSE, FALSE) >>,
        data |-> AddItemData(id, price, uriBytes)] >>

\* a script that writes the length of the metadata URI as a u64
AddItemWithMetadataDataLongLength(id, price, uriBytes) ==
    AddItemDiscriminator \o LE(id, 8) \o LE(price, 8) \o LE(Len(uriBytes), 8) \o uriBytes

\* addItemWithMetadata: Buffer.concat of its own five buffers
AddItemWithMetadataData(id, price, uriBytes) ==
    AddItemDiscriminator \o LE(id, 8) \o LE(price, 8) \o LE(Len(uriBytes), 4) \o uriBytes

\* addItemWithMetadata: the same transaction, built in its own script
AddItemWithMetadataTransaction(walletKey, id, price, uriBytes) ==
    << setComputeUnitLimit(ComputeUnits),
       [programId |-> ShopProgramId,
        keys |-> << AccountMeta(walletKey, TRUE, TRUE),
                    AccountMeta(getShopPDA, FALSE, TRUE),
                    AccountMeta(getItemPDA(id), FALSE, TRUE),
                    AccountMeta(SystemProgramId, FALSE, FALSE) >>,
        data |-> AddItemWithMetadataData(id, price, uriBytes)] >>

\* the metadata URIs the admin gives: "image:" followed by a one-byte URL
Uris == { <<105, 109, 97, 103, 101, 58, 120>> }

(***************************************************************************)
(* State.                                                                  *)
(***************************************************************************)
VARIABLES
    shop,             \* the Shop account
    items,            \* the Item accounts, by id
    history,          \* the PurchaseHistory accounts, by buyer
    balance,          \* lamports of each buyer
    admin,            \* the admin script that is running, if any
    nAdminJobs,       \* admin script invocations so far
    wallet,           \* the wallet adapter of the shop page
    isPurchasing,     \* useState<number | null>: 0 stands for null
    purchaseHistory,  \* useState<PurchaseRecord[]>: the local view
    shopItems,        \* ids of the items the shop page renders
    fetchesPending,   \* fetchItems() calls that have not finished
    refreshesPending, \* checkPurchaseHistory() calls of the mount effect not finished:
                      \* for each, the records the account held when it was called
    runs,             \* the purchase attempts in flight, by slot
    nStarted,         \* purchase attempts started so far
    alert,            \* the NetworkAlert component: its state and its check
    codec,            \* a decoder at work on the data of one account
    derive            \* addresses derived by the page and by each script

chainVars == <<shop, items, history, balance>>
adminVars == <<admin, nAdminJobs>>
pageVars == <<wallet, isPurchasing, purchaseHistory, shopItems, fetchesPending,
              refreshesPending>>
runVars == <<runs, nStarted>>
toolVars == <<alert, codec, derive>>
vars == <<shop, items, history, balance, admin, nAdminJobs, wallet, isPurchasing,
          purchaseHistory, shopItems, fetchesPending, refreshesPending, runs, nStarted,
          alert, codec, derive>>

Slots == 1..MaxRuns
Buyers == {BuyerPublicKey}

NoShop == [exists |-> FALSE, admin |-> NoKey, item_count |-> 0]
NoItem == [exists |-> FALSE, id |-> 0, price |-> 0, metadata_uri |-> <<>>]
NoHistory == [exists |-> FALSE, user |-> NoKey, purchases |-> <<>>]

IdleAdmin ==
    [pc |-> "idle", op |-> "none", id |-> 0, price |-> 0, uri |-> <<>>,
     tx |-> <<>>, status |-> "none"]

\* the NetworkAlert component before its effects ran: the state of
\* its three useState hooks, and no check under way (cluster: the chain
\* behind the live connection; probed, matched, failed: the catalog
\* entries probed so far, the one that matched, those whose probe threw;
\* earlier: the locals of a check that was under way when the effect ran
\* again)
IdleCheck ==
    [pc |-> "idle", cluster |-> 0, genesisHash |-> 0,
     detected |-> [provider |-> "", network |-> "", name |-> ""],
     k |-> 0, probed |-> <<>>, matched |-> 0, failed |-> {}]

IdleAlert ==
    [pc |-> "idle", mounted |-> FALSE, isCorrectNetwork |-> TRUE,
     detectedNetwork |-> [provider |-> "", network |-> "", name |-> ""],
     cluster |-> 0, genesisHash |-> 0,
     detected |-> [provider |-> "", network |-> "", name |-> ""],
     k |-> 0, probed |-> <<>>, matched |-> 0, failed |-> {}, toasts |-> 0,
     earlier |-> IdleCheck]

\* no address derived
IdleDerive == [pc |-> "idle", idA |-> 0, idB |-> 0, buyerA |-> NoKey, buyerB |-> NoKey,
               by |-> {}, out |-> <<>>]

\* no decoder at work
IdleCodec ==
    [pc |-> "idle", kind |-> "", id |-> 0, price |-> 0, uri |-> <<>>,
     purchases |-> <<>>, full |-> <<>>, data |-> <<>>, decoder |-> "",
     out |-> [ok |-> FALSE, error |-> "", value |-> <<>>],
     encoder |-> "", args |-> [id |-> 0, price |-> 0, uri |-> <<>>],
     payload |-> <<>>]

IdleRun ==
    [pc |-> "idle", path |-> "none", itemId |-> 0, buyer |-> NoKey,
     adminPubkey |-> NoKey, itemPrice |-> 0, buyerBalance |-> 0,
     historyExists |-> FALSE, tx |-> <<>>, status |-> "none",
     outcome |-> "none", reason |-> "none", log |-> <<>>,
     \* what the chain held when the run read it (not program state)
     itemSeen |-> "unread", priceRead |-> 0, balanceRead |-> 0,
     probeTruth |-> FALSE, existsAtSend |-> FALSE,
     \* records the history account held when checkPurchaseHistory was called
     viewSince |-> 0,
     \* wallet.signTransaction returned a signed transaction
     signed |-> FALSE]

Init ==
    /\ shop = NoShop
    /\ items = [i \in ItemIds |-> NoItem]
    /\ history = [b \in Buyers |-> NoHistory]
    /\ balance = [b \in Buyers |-> InitialBalance]
    /\ admin = IdleAdmin
    /\ nAdminJobs = 0
    /\ wallet = [connected |-> FALSE]
    /\ isPurchasing = 0
    /\ purchaseHistory = <<>>
    /\ shopItems = {}
    /\ fetchesPending = 1
    /\ refreshesPending = <<>>
    /\ runs = [s \in Slots |-> IdleRun]
    /\ nStarted = 0
    /\ alert = IdleAlert
    /\ codec = IdleCodec
    /\ derive = IdleDerive

(***************************************************************************)
(* The shop program, as the client's account layouts and instruction       *)
(* contract describe it.                                                   *)
(***************************************************************************)
RECURSIVE FromLE(_)
FromLE(bytes) == IF bytes = <<>> THEN 0 ELSE bytes[1] + 256 * FromLE(Tail(bytes))

Discriminator(ix) == IF Len(ix.data) >= 8 THEN SubSeq(ix.data, 1, 8) ELSE <<>>

ItemIdsAt(address) == {i \in ItemIds : getItemPDA(i) = address}

Chain == [shop |-> shop, items |-> items, history |-> history, balance |-> balance]

\* initialize_shop: creates the Shop singleton with the signer as admin
ExecInitializeShop(c, ix) ==
    LET k == ix.keys
        ok == /\ Len(k) = 3
              /\ k[1].isSigner /\ k[1].isWritable
              /\ k[2].pubkey = getShopPDA /\ k[2].isWritable
              /\ k[3].pubkey = SystemProgramId
              /\ ~c.shop.exists
    IN  IF ok
        THEN [ok |-> TRUE,
              chain |-> [c EXCEPT !.shop = [exists |-> TRUE, admin |-> k[1].pubkey,
                                            item_count |-> 0]]]
        ELSE [ok |-> FALSE, chain |-> c]

\* add_item: creates the Item account of the id given in the arguments
ExecAddItem(c, ix) ==
    LET k == ix.keys
        d == ix.data
        wellFormed == Len(d) >= 28 /\ Len(d) = 28 + FromLE(SubSeq(d, 25, 28))
        id == FromLE(SubSeq(d, 9, 16))
        price == FromLE(SubSeq(d, 17, 24))
        ok == /\ wellFormed
              /\ Len(k) = 4
              /\ k[1].isSigner /\ k[1].isWritable
              /\ k[2].pubkey = getShopPDA /\ k[2].isWritable
              /\ c.shop.exists /\ c.shop.admin = k[1].pubkey
              /\ id \in ItemIds
              /\ k[3].pubkey = getItemPDA(id) /\ k[3].isWritable
              /\ k[4].pubkey = SystemProgramId
              /\ ~c.items[id].exists
    IN  IF ok
        THEN [ok |-> TRUE,
              chain |-> [c EXCEPT !.shop.item_count = @ + 1,
                                  !.items[id] = [exists |-> TRUE, id |-> id, price |-> price,
                                                 metadata_uri |-> SubSeq(d, 29, Len(d))]]]
        ELSE [ok |-> FALSE, chain |-> c]

\* first_purchase / subsequent_purchase: pays the admin and records the
\* purchase; first_purchase creates the history account, subsequent_purchase
\* appends to it while it has room
ExecPurchase(c, ix, first) ==
    LET k == ix.keys
        shape == /\ Len(k) = 6
                 /\ k[1].isSigner /\ k[1].isWritable
                 /\ k[1].pubkey \in Buyers
                 /\ k[2].pubkey = getShopPDA
                 /\ ItemIdsAt(k[3].pubkey) # {}
                 /\ k[4].isWritable
                 /\ k[5].isWritable
                 /\ k[6].pubkey = SystemProgramId
    IN  IF ~shape THEN [ok |-> FALSE, chain |-> c]
        ELSE
        LET buyer == k[1].pubkey
            id == CHOOSE i \in ItemIdsAt(k[3].pubkey) : TRUE
            h == c.history[buyer]
            record == [item_id |-> id, timestamp |-> Len(h.purchases) + 1]
            ok == /\ c.shop.exists /\ c.items[id].exists
                  /\ k[4].pubkey = c.shop.admin
                  /\ k[5].pubkey = getHistoryPDA(buyer)
                  /\ c.balance[buyer] >= c.items[id].price
                  /\ IF first THEN ~h.exists
                     ELSE h.exists /\ Len(h.purchases) < MaxPurchases
        IN  IF ok
            THEN [ok |-> TRUE,
                  chain |-> [c EXCEPT
                      !.balance[buyer] = @ - c.items[id].price,
                      !.history[buyer] = [exists |-> TRUE, user |-> buyer,
                                          purchases |-> Append(h.purchases, record)]]]
            ELSE [ok |-> FALSE, chain |-> c]

ExecInstruction(c, ix) ==
    IF ix.programId # ShopProgramId THEN [ok |-> TRUE, chain |-> c]
    ELSE IF Discriminator(ix) = InitializeShopDiscriminator THEN ExecInitializeShop(c, ix)
    ELSE IF Discriminator(ix) = AddItemDiscriminator THEN ExecAddItem(c, ix)
    ELSE IF ix.data = INSTRUCTION_DISCRIMINATORS.firstPurchase THEN ExecPurchase(c, ix, TRUE)
    ELSE IF ix.data = INSTRUCTION_DISCRIMINATORS.subsequentPurchase THEN ExecPurchase(c, ix, FALSE)
    ELSE [ok |-> FALSE, chain |-> c]

RECURSIVE ExecTransaction(_, _)
\* the instructions of a transaction run in order; one failure reverts all
ExecTransaction(c, tx) ==
    IF tx = <<>> THEN [ok |-> TRUE, chain |-> c]
    ELSE LET r == ExecInstruction(c, Head(tx))
         IN  IF r.ok THEN ExecTransaction(r.chain, Tail(tx)) ELSE [ok |-> FALSE, chain |-> c]

\* the simulation a node runs before it accepts a transaction
Preflight(tx) == ExecTransaction(Chain, tx).ok

SetChain(c) ==
    /\ shop' = c.shop
    /\ items' = c.items
    /\ history' = c.history
    /\ balance' = c.balance

(***************************************************************************)
(* The admin scripts: initializeShop and addItem of the shop client, and   *)
(* addItemWithMetadata.  sendAndConfirmTransaction signs with the local    *)
(* keypair, sends, and awaits the confirmation; it throws when the         *)
(* transaction is rejected, reverted or not confirmed.  A script ends by   *)
(* returning the address ("exists", "ok") or by throwing ("error").        *)
(***************************************************************************)
AdminEnd(result) ==
    /\ result \in {"exists", "ok", "error"}
    /\ admin' = IdleAdmin
    /\ UNCHANGED nAdminJobs

\* shop client `init`: initializeShop() up to its getAccountInfo
AdminStartInitializeShop ==
    /\ admin.pc = "idle" /\ nAdminJobs < MaxAdminJobs
    /\ admin' = [IdleAdmin EXCEPT !.pc = "shopRead", !.op = "initializeShop"]
    /\ nAdminJobs' = nAdminJobs + 1
    /\ UNCHANGED <<chainVars, pageVars, runVars, toolVars>>

\* initializeShop after getAccountInfo(shopPDA)
AdminShopReadReturn ==
    /\ admin.pc = "shopRead"
    /\ \E rpc \in {"ok", "throw"} :
         IF rpc = "throw" THEN AdminEnd("error")
         ELSE IF shop.exists THEN AdminEnd("exists")
         ELSE /\ admin' = [admin EXCEPT !.pc = "send",
                                        !.tx = InitializeShopTransaction(AdminPublicKey)]
              /\ UNCHANGED nAdminJobs
    /\ UNCHANGED <<chainVars, pageVars, runVars, toolVars>>

\* shop client `add-item <id> <price> <metadataUri>`: addItem() up to
\* sendAndConfirmTransaction; main exits when an argument is missing or 0
AdminStartAddItem ==
    /\ admin.pc = "idle" /\ nAdminJobs < MaxAdminJobs
    /\ \E in \in AddItemArgs, uri \in Uris :
         /\ in.id # 0 /\ in.price # 0 /\ uri # <<>>
         /\ admin' = [IdleAdmin EXCEPT !.pc = "send", !.op = "addItem",
                                       !.id = in.id, !.price = in.price, !.uri = uri,
                                       !.tx = AddItemTransaction(AdminPublicKey, in.id,
                                                                 in.price, uri)]
    /\ nAdminJobs' = nAdminJobs + 1
    /\ UNCHANGED <<chainVars, pageVars, runVars, toolVars>>

\* addItemWithMetadata() up to its getAccountInfo(itemPDA)
AdminStartAddItemWithMetadata ==
    /\ admin.pc = "idle" /\ nAdminJobs < MaxAdminJobs
    /\ \E in \in MetadataFiles, uri \in Uris :
         /\ in.id # 0 /\ in.price # 0
         /\ admin' = [IdleAdmin EXCEPT !.pc = "itemRead", !.op = "addItemWithMetadata",
                                       !.id = in.id, !.price = in.price, !.uri = uri]
    /\ nAdminJobs' = nAdminJobs + 1
    /\ UNCHANGED <<chainVars, pageVars, runVars, toolVars>>

\* addItemWithMetadata after getAccountInfo(itemPDA)
AdminItemReadReturn ==
    /\ admin.pc = "itemRead"
    /\ \E rpc \in {"ok", "throw"} :
         IF rpc = "throw" THEN AdminEnd("error")
         ELSE IF items[admin.id].exists THEN AdminEnd("exists")
         ELSE /\ admin' = [admin EXCEPT !.pc = "send",
                   !.tx = AddItemWithMetadataTransaction(AdminPublicKey, admin.id,
                                                         admin.price, admin.uri)]
              /\ UNCHANGED nAdminJobs
    /\ UNCHANGED <<chainVars, pageVars, runVars, toolVars>>

\* sendAndConfirmTransaction: the node answered the send
AdminSendReturn ==
    /\ admin.pc = "send"
    /\ \E rpc \in {"ok", "throw"} :
         IF rpc = "throw" \/ ~Preflight(admin.tx) THEN AdminEnd("error")
         ELSE /\ admin' = [admin EXCEPT !.pc = "confirm", !.status = "pending"]
              /\ UNCHANGED nAdminJobs
    /\ UNCHANGED <<chainVars, pageVars, runVars, toolVars>>

\* the chain executes the admin's transaction
AdminExecute ==
    /\ admin.status = "pending"
    /\ LET res == ExecTransaction(Chain, admin.tx)
       IN  /\ admin' = [admin EXCEPT !.status = IF res.ok THEN "ok" ELSE "err"]
           /\ IF res.ok THEN SetChain(res.chain) ELSE UNCHANGED chainVars
    /\ UNCHANGED <<nAdminJobs, pageVars, runVars, toolVars>>

\* sendAndConfirmTransaction: the confirmation arrived or timed out
AdminConfirmReturn ==
    /\ admin.pc = "confirm"
    /\ \/ admin.status = "ok" /\ AdminEnd("ok")
       \/ admin.status = "err" /\ AdminEnd("error")
       \/ AdminEnd("error")
    /\ UNCHANGED <<chainVars, pageVars, runVars, toolVars>>

(***************************************************************************)
(* The shop page.                                                          *)
(***************************************************************************)
ExistingItems == {i \in ItemIds : items[i].exists}

\* purchaseHistory.some(purchase => purchase.item_id === item.id)
isPurchased(item) == \E i \in 1..Len(purchaseHistory) : purchaseHistory[i].item_id = item

\* <Button disabled={isPurchasing === item.id || isPurchased}> of a rendered item
ButtonEnabled(item) == item \in shopItems /\ ~(isPurchasing = item \/ isPurchased(item))

\* variant: the answer of the read is turned around
HistoryExistsNegated(historyAccount) == ~historyAccount.exists

\* variant: the local view is asked instead of the account that was read
HistoryExistsInView(historyAccount) == purchaseHistory # <<>>

\* historyAccount !== null
HistoryExists(historyAccount) == historyAccount.exists

\* the purchases checkPurchaseHistory parses out of a history account
ParsePurchases(historyAccount) ==
    [i \in 1..Len(historyAccount.purchases) |->
        [item_id |-> ToNumber(historyAccount.purchases[i].item_id),
         timestamp |-> ToNumber(historyAccount.purchases[i].timestamp)]]

\* variant: the user of the account is not compared with the wallet
SameUserUnchecked(userPubkey, walletKey) == TRUE

\* userPubkey.equals(wallet.publicKey)
SameUser(userPubkey, walletKey) == userPubkey = walletKey

\* the value checkPurchaseHistory gives setPurchaseHistory after a read
CheckPurchaseHistoryView(historyAccount, walletKey) ==
    IF ~historyAccount.exists THEN <<>>
    ELSE IF ~SameUser(historyAccount.user, walletKey) THEN <<>>
    ELSE ParsePurchases(historyAccount)

\* what a getAccountInfo(historyPDA) that was called when the account held
\* `since` records can answer: the account as it was at some moment between
\* the call and the answer (the account is only ever appended to)
HistorySnapshots(since) ==
    LET h == history[BuyerPublicKey] IN
    { IF k = 0 THEN NoHistory ELSE [h EXCEPT !.purchases = SubSeq(h.purchases, 1, k)] :
        k \in since..Len(h.purchases) }

\* the wallet adapter connects (autoConnect or the wallet button); the
\* effect on wallet.connected calls fetchItems() and checkPurchaseHistory()
WalletConnect ==
    /\ ~wallet.connected
    /\ wallet' = [connected |-> TRUE]
    /\ fetchesPending' = fetchesPending + 1
    /\ refreshesPending' = Append(refreshesPending, Len(history[BuyerPublicKey].purchases))
    /\ UNCHANGED <<isPurchasing, purchaseHistory, shopItems>>
    /\ UNCHANGED <<chainVars, adminVars, runVars, toolVars>>

\* the wallet adapter disconnects once the page has settled and no attempt
\* is under way: wallet.connected changes, so the effect runs again; it
\* calls fetchItems() and, the wallet not being connected, nothing else
WalletDisconnect ==
    /\ wallet.connected
    /\ fetchesPending = 0 /\ refreshesPending = <<>>
    /\ \A s \in Slots : runs[s].pc \in {"idle", "done"}
    /\ wallet' = [connected |-> FALSE]
    /\ fetchesPending' = fetchesPending + 1
    /\ UNCHANGED <<isPurchasing, purchaseHistory, shopItems, refreshesPending>>
    /\ UNCHANGED <<chainVars, adminVars, runVars, toolVars>>

\* a fetchItems() call finishes: ids 1..10 were read one after the other, a
\* failed or empty read leaves the id out, so the list holds the items that
\* exist by now, or nothing when the node cannot be reached
FetchItemsDone ==
    /\ fetchesPending > 0
    /\ \E rpc \in {"ok", "throw"} :
         shopItems' = IF rpc = "ok" THEN ExistingItems ELSE {}
    /\ fetchesPending' = fetchesPending - 1
    /\ UNCHANGED <<wallet, isPurchasing, purchaseHistory, refreshesPending>>
    /\ UNCHANGED <<chainVars, adminVars, runVars, toolVars>>

\* checkPurchaseHistory() of the effect, after its getAccountInfo
EffectRefreshReturn ==
    /\ refreshesPending # <<>>
    /\ refreshesPending' = Tail(refreshesPending)
    /\ \E rpc \in {"ok", "throw"}, historyAccount \in HistorySnapshots(Head(refreshesPending)) :
         purchaseHistory' =
            IF rpc = "throw" THEN purchaseHistory
            ELSE CheckPurchaseHistoryView(historyAccount, BuyerPublicKey)
    /\ UNCHANGED <<wallet, isPurchasing, shopItems, fetchesPending>>
    /\ UNCHANGED <<chainVars, adminVars, runVars, toolVars>>

(***************************************************************************)
(* Purchase attempts.                                                      *)
(***************************************************************************)
\* attempts take the slots in order, one slot per attempt
NextSlot(s) == s = nStarted + 1
InFlight(s) == runs[s].pc \notin {"idle", "done"}

NewRun(path, item) ==
    [IdleRun EXCEPT !.path = path, !.itemId = item, !.buyer = BuyerPublicKey]

\* an attempt returned: its locals are gone; what stays is what it showed
\* (outcome and reason), the calls it made, and the transaction it sent as
\* long as the chain has not executed it
Returned(r, outcome, reason) ==
    [IdleRun EXCEPT !.pc = "done", !.path = r.path, !.itemId = r.itemId,
                    !.buyer = r.buyer, !.status = r.status,
                    !.tx = IF r.status = "pending" THEN r.tx ELSE <<>>,
                    !.outcome = outcome, !.reason = reason, !.log = r.log,
                    !.itemSeen = r.itemSeen, !.signed = r.signed]

Step(r, pc, events) == [r EXCEPT !.pc = pc, !.log = r.log \o events]

\* the catch and finally of handlePurchase: the error toast with the
\* message of the error (kept as the run's reason), setIsPurchasing(null)
\* variant: the finally block leaves the marker as it is
FinallyKeepsMarker == isPurchasing

\* finally { setIsPurchasing(null) }
FinallyMarker == 0

\* variant: the catch of handlePurchase also empties the view
PageFailClearsView(s, r, reason) ==
    /\ runs' = [runs EXCEPT ![s] = Returned(r, "Failed", reason)]
    /\ isPurchasing' = FinallyMarker
    /\ purchaseHistory' = <<>>
    /\ UNCHANGED <<wallet, shopItems, fetchesPending, refreshesPending>>

PageFail(s, r, reason) ==
    /\ runs' = [runs EXCEPT ![s] = Returned(r, "Failed", reason)]
    /\ isPurchasing' = FinallyMarker
    /\ UNCHANGED <<wallet, purchaseHistory, shopItems, fetchesPending, refreshesPending>>

PageGo(s, r) ==
    /\ runs' = [runs EXCEPT ![s] = r]
    /\ UNCHANGED pageVars

\* a click on the Purchase button of a rendered item while no wallet is
\* connected: handlePurchase shows a toast and returns
ClickDisconnected ==
    /\ ~wallet.connected
    /\ \E item \in ItemIds : ButtonEnabled(item)
    /\ UNCHANGED vars

\* variant: handlePurchase also asks the network check for its verdict
WalletReadyOnCorrectNetwork == wallet.connected /\ alert.isCorrectNetwork

\* the guard of handlePurchase: wallet.connected && wallet.publicKey
WalletReady == wallet.connected

\* handlePurchase(itemId) up to the first await, getAccountInfo(shopPDA)
PageStart(s, item) ==
    /\ NextSlot(s)
    /\ ButtonEnabled(item)
    /\ WalletReady
    /\ isPurchasing' = item
    /\ runs' = [runs EXCEPT ![s] = Step(NewRun("page", item), "shop", <<"getShop">>)]
    /\ nStarted' = nStarted + 1
    /\ UNCHANGED <<wallet, purchaseHistory, shopItems, fetchesPending, refreshesPending>>
    /\ UNCHANGED <<chainVars, adminVars, toolVars>>

\* handlePurchase after getAccountInfo(shopPDA)
PageShopReturn(s) ==
    LET r == runs[s] IN
    /\ r.path = "page" /\ r.pc = "shop"
    /\ \E rpc \in {"ok", "throw"} :
         IF rpc = "throw" THEN PageFail(s, r, "RpcError")
         ELSE IF ~shop.exists THEN PageFail(s, r, "Shop not initialized")
         ELSE PageGo(s, [Step(r, "item", <<"getItem">>) EXCEPT !.adminPubkey = shop.admin])
    /\ UNCHANGED <<chainVars, adminVars, nStarted, toolVars>>

\* variant: the account is taken to be there
ItemAlwaysFound(itemAccount) == FALSE

\* if (!itemAccount): getAccountInfo gave null
ItemNotFound(itemAccount) == ~itemAccount.exists

\* handlePurchase after getAccountInfo(itemPDA)
PageItemReturn(s) ==
    LET itemAccount == items[runs[s].itemId]
        r == [runs[s] EXCEPT !.itemSeen = IF itemAccount.exists THEN "present" ELSE "absent"]
    IN
    /\ runs[s].path = "page" /\ runs[s].pc = "item"
    /\ \E rpc \in {"ok", "throw"} :
         IF rpc = "throw" THEN PageFail(s, runs[s], "RpcError")
         ELSE IF ItemNotFound(itemAccount)
         THEN PageFail(s, r, "ItemNotFound")
         ELSE PageGo(s, [Step(r, "balance", <<"getBalance">>) EXCEPT
                            !.priceRead = itemAccount.price,
                            !.itemPrice = ToNumber(itemAccount.price)])
    /\ UNCHANGED <<chainVars, adminVars, nStarted, toolVars>>

\* buyerBalance < itemPrice of handlePurchase
PageInsufficient(buyerBalance, itemPrice) == buyerBalance < itemPrice

\* handlePurchase after getBalance(wallet.publicKey)
PageBalanceReturn(s) ==
    LET r == runs[s]
        buyerBalance == ToNumber(balance[r.buyer])
        r2 == [r EXCEPT !.buyerBalance = buyerBalance, !.balanceRead = balance[r.buyer]]
    IN
    /\ r.path = "page" /\ r.pc = "balance"
    /\ \E rpc \in {"ok", "throw"} :
         IF rpc = "throw" THEN PageFail(s, r, "RpcError")
         ELSE IF PageInsufficient(buyerBalance, r.itemPrice)
         THEN PageFail(s, r2, "InsufficientFunds")
         ELSE PageGo(s, Step(r2, "probe", <<"getHistory">>))
    /\ UNCHANGED <<chainVars, adminVars, nStarted, toolVars>>

\* handlePurchase after getAccountInfo(historyPDA): builds the transaction
\* and asks for a blockhash
PageProbeReturn(s) ==
    LET r == runs[s]
        historyExists == HistoryExists(history[r.buyer])
    IN
    /\ r.path = "page" /\ r.pc = "probe"
    /\ \E rpc \in {"ok", "throw"} :
         IF rpc = "throw" THEN PageFail(s, r, "RpcError")
         ELSE PageGo(s, [Step(r, "blockhash", <<"build", "getLatestBlockhash">>) EXCEPT
                            !.historyExists = historyExists,
                            !.probeTruth = history[r.buyer].exists,
                            !.tx = PageBuildTransaction(r.buyer, r.adminPubkey, r.itemId,
                                                        historyExists)])
    /\ UNCHANGED <<chainVars, adminVars, nStarted, toolVars>>

\* handlePurchase after getLatestBlockhash: asks the wallet for a signature
PageBlockhashReturn(s) ==
    LET r == runs[s] IN
    /\ r.path = "page" /\ r.pc = "blockhash"
    /\ \E rpc \in {"ok", "throw"}, signTransaction \in BOOLEAN :
         IF rpc = "throw" THEN PageFail(s, r, "RpcError")
         ELSE IF ~signTransaction
         THEN PageFail(s, r, "Wallet does not support signing transactions")
         ELSE PageGo(s, Step(r, "sign", <<"sign">>))
    /\ UNCHANGED <<chainVars, adminVars, nStarted, toolVars>>

\* variant: the rejection of the wallet is not thrown
SignTransactionNeverThrows(answer) == FALSE

\* await wallet.signTransaction(transaction) throws when the user rejects
\* or closes the request
SignTransactionThrows(answer) == answer = "rejected"

\* handlePurchase after wallet.signTransaction: sends the signed transaction
PageSignReturn(s) ==
    LET r == runs[s] IN
    /\ r.path = "page" /\ r.pc = "sign"
    /\ \E answer \in {"signed", "rejected"} :
         IF SignTransactionThrows(answer) THEN PageFail(s, r, "SigningRejected")
         ELSE PageGo(s, [Step(r, "send", <<"send">>) EXCEPT
                            !.existsAtSend = history[r.buyer].exists,
                            !.signed = (answer = "signed")])
    /\ UNCHANGED <<chainVars, adminVars, nStarted, toolVars>>

\* handlePurchase after sendRawTransaction: the node simulated the
\* transaction and either rejected it or took it
PageSendReturn(s) ==
    LET r == runs[s] IN
    /\ r.path = "page" /\ r.pc = "send"
    /\ \E rpc \in {"ok", "throw"} :
         IF rpc = "throw" THEN PageFail(s, r, "RpcError")
         ELSE IF ~Preflight(r.tx) THEN PageFail(s, r, "SubmissionFailed")
         ELSE PageGo(s, [Step(r, "confirm", <<"confirm">>) EXCEPT !.status = "pending"])
    /\ UNCHANGED <<chainVars, adminVars, nStarted, toolVars>>

\* handlePurchase after confirmTransaction, whose result is not looked at:
\* it resolves once the transaction was executed, with or without an error,
\* and throws when it was not confirmed in time; after it resolved the
\* success toast is shown and checkPurchaseHistory() is called
PageConfirmReturn(s) ==
    LET r == runs[s] IN
    /\ r.path = "page" /\ r.pc = "confirm"
    /\ \/ /\ r.status \in {"ok", "err"}
          /\ PageGo(s, [Step(r, "refresh", <<"refresh">>) EXCEPT
                            !.viewSince = Len(history[r.buyer].purchases)])
       \/ PageFail(s, r, "ConfirmationTimeout")
    /\ UNCHANGED <<chainVars, adminVars, nStarted, toolVars>>

\* handlePurchase after checkPurchaseHistory(): the link toast, and finally
\* setIsPurchasing(null)
PageRefreshReturn(s) ==
    LET r == runs[s] IN
    /\ r.path = "page" /\ r.pc = "refresh"
    /\ \E rpc \in {"ok", "throw"}, historyAccount \in HistorySnapshots(r.viewSince) :
         purchaseHistory' =
            IF ~wallet.connected \/ rpc = "throw" THEN purchaseHistory
            ELSE CheckPurchaseHistoryView(historyAccount, BuyerPublicKey)
    /\ runs' = [runs EXCEPT ![s] = Returned(r, "Confirmed", "none")]
    /\ isPurchasing' = FinallyMarker
    /\ UNCHANGED <<wallet, shopItems, fetchesPending, refreshesPending, nStarted, toolVars>>
    /\ UNCHANGED <<chainVars, adminVars>>

\* the catch of purchaseItem: the error is printed and false is returned
CliFail(s, r, reason) ==
    /\ runs' = [runs EXCEPT ![s] = Returned(r, "Failed", reason)]
    /\ UNCHANGED pageVars

CliGo(s, r) ==
    /\ runs' = [runs EXCEPT ![s] = r]
    /\ UNCHANGED pageVars

\* main of the purchase script found items to list and calls
\* purchaseItem(itemId) with the id of the command line; purchaseItem runs
\* up to its first await, getAccountInfo(itemPDA)
CliStart(s, item) ==
    /\ NextSlot(s)
    /\ shop.exists /\ ExistingItems # {}
    /\ \E adminPublicKey \in AdminWalletFiles :
         runs' = [runs EXCEPT ![s] =
                     [Step(NewRun("cli", item), "item", <<"getItem">>) EXCEPT
                         !.adminPubkey = adminPublicKey]]
    /\ nStarted' = nStarted + 1
    /\ UNCHANGED <<chainVars, adminVars, pageVars, toolVars>>

\* purchaseItem after getAccountInfo(itemPDA)
CliItemReturn(s) ==
    LET itemAccount == items[runs[s].itemId]
        r == [runs[s] EXCEPT !.itemSeen = IF itemAccount.exists THEN "present" ELSE "absent"]
    IN
    /\ runs[s].path = "cli" /\ runs[s].pc = "item"
    /\ \E rpc \in {"ok", "throw"} :
         IF rpc = "throw" THEN CliFail(s, runs[s], "RpcError")
         ELSE IF ItemNotFound(itemAccount)
         THEN CliFail(s, r, "ItemNotFound")
         ELSE CliGo(s, [Step(r, "probe", <<"getHistory">>) EXCEPT
                           !.priceRead = itemAccount.price])
    /\ UNCHANGED <<chainVars, adminVars, nStarted, toolVars>>

\* purchaseItem after getAccountInfo(historyPDA): decodes the item (its
\* price is a BN, exact) and asks for the balance
CliProbeReturn(s) ==
    LET r == runs[s] IN
    /\ r.path = "cli" /\ r.pc = "probe"
    /\ \E rpc \in {"ok", "throw"} :
         IF rpc = "throw" THEN CliFail(s, r, "RpcError")
         ELSE CliGo(s, [Step(r, "balance", <<"getBalance">>) EXCEPT
                           !.historyExists = HistoryExists(history[r.buyer]),
                           !.probeTruth = history[r.buyer].exists,
                           !.itemPrice = r.priceRead])
    /\ UNCHANGED <<chainVars, adminVars, nStarted, toolVars>>

\* buyerBalance < item.price of purchaseItem: the BN is turned into its
\* decimal string and the string into a number
CliInsufficient(buyerBalance, price) == buyerBalance < ToNumber(price)

\* purchaseItem after getBalance: builds the transaction and calls
\* sendAndConfirmTransaction, which signs with the keypair and sends
CliBalanceReturn(s) ==
    LET r == runs[s]
        buyerBalance == ToNumber(balance[r.buyer])
        r2 == [r EXCEPT !.buyerBalance = buyerBalance, !.balanceRead = balance[r.buyer]]
    IN
    /\ r.path = "cli" /\ r.pc = "balance"
    /\ \E rpc \in {"ok", "throw"} :
         IF rpc = "throw" THEN CliFail(s, r, "RpcError")
         ELSE IF CliInsufficient(buyerBalance, r.itemPrice)
         THEN CliFail(s, r2, "InsufficientFunds")
         ELSE CliGo(s, [Step(r2, "send", <<"build", "sign", "send">>) EXCEPT
                           !.tx = CliBuildTransaction(r.buyer, r.adminPubkey, r.itemId,
                                                      r.historyExists),
                           !.existsAtSend = history[r.buyer].exists])
    /\ UNCHANGED <<chainVars, adminVars, nStarted, toolVars>>

\* sendAndConfirmTransaction after the send
CliSendReturn(s) ==
    LET r == runs[s] IN
    /\ r.path = "cli" /\ r.pc = "send"
    /\ \E rpc \in {"ok", "throw"} :
         IF rpc = "throw" THEN CliFail(s, r, "RpcError")
         ELSE IF ~Preflight(r.tx) THEN CliFail(s, r, "SubmissionFailed")
         ELSE CliGo(s, [Step(r, "confirm", <<"confirm">>) EXCEPT !.status = "pending"])
    /\ UNCHANGED <<chainVars, adminVars, nStarted, toolVars>>

\* sendAndConfirmTransaction after the confirmation: it throws when the
\* transaction failed or was not confirmed; on success purchaseItem calls
\* checkPurchaseHistoryForWallet
CliConfirmReturn(s) ==
    LET r == runs[s] IN
    /\ r.path = "cli" /\ r.pc = "confirm"
    /\ \/ r.status = "ok" /\ CliGo(s, Step(r, "refresh", <<"refresh">>))
       \/ r.status = "err" /\ CliFail(s, r, "TransactionReverted")
       \/ CliFail(s, r, "ConfirmationTimeout")
    /\ UNCHANGED <<chainVars, adminVars, nStarted, toolVars>>

\* purchaseItem after checkPurchaseHistoryForWallet (which catches its own
\* errors): returns true
CliRefreshReturn(s) ==
    LET r == runs[s] IN
    /\ r.path = "cli" /\ r.pc = "refresh"
    /\ runs' = [runs EXCEPT ![s] = Returned(r, "Confirmed", "none")]
    /\ UNCHANGED <<chainVars, adminVars, pageVars, nStarted, toolVars>>

\* the chain executes the transaction of a purchase attempt
ChainExecute(s) ==
    LET r == runs[s]
        res == ExecTransaction(Chain, r.tx)
    IN
    /\ r.status = "pending"
    /\ runs' = [runs EXCEPT ![s].status = IF res.ok THEN "ok" ELSE "err",
                            ![s].tx = IF r.pc = "done" THEN <<>> ELSE r.tx]
    /\ IF res.ok THEN SetChain(res.chain) ELSE UNCHANGED chainVars
    /\ UNCHANGED <<adminVars, pageVars, nStarted, toolVars>>

(***************************************************************************)
(* The account decoders of the client, on the bytes of one account.        *)
(***************************************************************************)
\* the ids and prices the decoders are applied to
U64Samples == {0, 1, 3, 4, 5, 256}

\* a string is the sequence of its code points: "image:x", "é" and "image:é"
UriStrings == { <<105, 109, 97, 103, 101, 58, 120>>, <<233>>,
                <<105, 109, 97, 103, 101, 58, 233>> }

\* the purchase records of the history accounts the decoder is applied to
RecordSamples == { [item_id |-> 1, timestamp |-> 1], [item_id |-> 2, timestamp |-> 2] }

\* Date.now() / 1000 at the moment the parse failed
ClockSamples == {3}

REPLACEMENT_CHARACTER == 65533

RECURSIVE Utf8Encode(_)
\* Buffer.from(string): the UTF-8 bytes of the string (code points below 2048)
Utf8Encode(str) ==
    IF str = <<>> THEN <<>>
    ELSE (IF Head(str) < 128 THEN <<Head(str)>>
          ELSE <<192 + (Head(str) \div 64), 128 + (Head(str) % 64)>>)
         \o Utf8Encode(Tail(str))

RECURSIVE Utf8Decode(_)
\* buffer.toString('utf8'): a byte that does not start or continue a
\* character becomes U+FFFD
Utf8Decode(bytes) ==
    IF bytes = <<>> THEN <<>>
    ELSE IF Head(bytes) < 128 THEN <<Head(bytes)>> \o Utf8Decode(Tail(bytes))
    ELSE IF /\ Head(bytes) >= 192 /\ Head(bytes) < 224
            /\ Len(bytes) >= 2
            /\ bytes[2] >= 128 /\ bytes[2] < 192
         THEN <<(Head(bytes) - 192) * 64 + (bytes[2] - 128)>>
              \o Utf8Decode(Tail(Tail(bytes)))
    ELSE <<REPLACEMENT_CHARACTER>> \o Utf8Decode(Tail(bytes))

\* buffer.slice(start, end): both ends are clamped to the buffer
slice(data, start, end) ==
    LET a == IF start < Len(data) THEN start ELSE Len(data)
        b == IF end < Len(data) THEN end ELSE Len(data)
    IN  SubSeq(data, a + 1, b)

\* readBigUInt64LE, readBigInt64LE and readUInt32LE throw a RangeError
\* unless the whole field lies in the buffer
FieldInBuffer(data, offset, width) == offset + width <= Len(data)

readLE(data, offset, width) == FromLE(SubSeq(data, offset + 1, offset + width))

\* publicKey.toBuffer()
toBuffer(key) == key.seeds[1]

\* the 8 bytes Anchor puts in front of an account; the decoders skip them
ItemAccountTag == [i \in 1..8 |-> 73]
HistoryAccountTag == [i \in 1..8 |-> 72]

\* the data of an Item account: the account tag, then the fields as the
\* add_item encoder lays them out after its discriminator
ItemAccountData(id, price, uriBytes) ==
    LET args == AddItemData(id, price, uriBytes)
    IN  ItemAccountTag \o SubSeq(args, Len(AddItemDiscriminator) + 1, Len(args))

RECURSIVE RecordBytes(_)
RecordBytes(purchases) ==
    IF purchases = <<>> THEN <<>>
    ELSE LE(Head(purchases).item_id, 8) \o LE(Head(purchases).timestamp, 8)
         \o RecordBytes(Tail(purchases))

\* the data of a PurchaseHistory account
HistoryAccountData(user, purchases) ==
    HistoryAccountTag \o toBuffer(user) \o LE(Len(purchases), 4) \o RecordBytes(purchases)

Thrown(error) == [ok |-> FALSE, error |-> error, value |-> <<>>]
Decoded(value) == [ok |-> TRUE, error |-> "", value |-> value]

LAMPORTS_PER_SOL == 1000000000

\* getItem of the admin script on accountInfo.data
getItemDecode(accountData) ==
    LET data == slice(accountData, 8, Len(accountData)) IN
    IF ~FieldInBuffer(data, 0, 8) \/ ~FieldInBuffer(data, 8, 8) \/ ~FieldInBuffer(data, 16, 4)
    THEN Thrown("RangeError")
    ELSE LET metadataUriLength == readLE(data, 16, 4) IN
         Decoded([id |-> ToNumber(readLE(data, 0, 8)),
                  price |-> ToNumber(readLE(data, 8, 8)),
                  metadataUri |-> Utf8Decode(slice(data, 20, 20 + metadataUriLength))])

\* fetchItemDetails of the shop page on itemAccount.data, up to the string;
\* its catch returns null; the price is kept in SOL, a quotient of numbers
fetchItemDetailsDecode(data) ==
    IF ~FieldInBuffer(data, 8, 8) \/ ~FieldInBuffer(data, 16, 8) \/ ~FieldInBuffer(data, 24, 4)
    THEN Thrown("null")
    ELSE LET metadataUriLength == readLE(data, 24, 4) IN
         Decoded([id |-> ToNumber(readLE(data, 8, 8)),
                  price |-> <<ToNumber(readLE(data, 16, 8)), LAMPORTS_PER_SOL>>,
                  metadataUri |-> Utf8Decode(slice(data, 28, 28 + metadataUriLength))])

\* the records the parse loop of checkPurchaseHistory reads from offset 44
ParseRecords(data, n) ==
    [i \in 1..n |->
        [item_id |-> ToNumber(readLE(data, 44 + 16 * (i - 1), 8)),
         timestamp |-> ToNumber(readLE(data, 52 + 16 * (i - 1), 8))]]

\* the try block of checkPurchaseHistory on historyAccount.data: the
\* PublicKey constructor throws unless it is given 32 bytes
checkPurchaseHistoryParse(data, walletKey) ==
    LET userBytes == slice(data, 8, 8 + PUBKEY_LEN) IN
    IF Len(userBytes) # PUBKEY_LEN THEN Thrown("Invalid public key input")
    ELSE IF ~SameUser(PublicKey(userBytes), walletKey) THEN Decoded(<<>>)
    ELSE IF ~FieldInBuffer(data, 40, 4) THEN Thrown("RangeError")
    ELSE LET purchasesLength == readLE(data, 40, 4) IN
         IF ~FieldInBuffer(data, 44, 16 * purchasesLength) THEN Thrown("RangeError")
         ELSE Decoded(ParseRecords(data, purchasesLength))

\* the value checkPurchaseHistory gives setPurchaseHistory for the data of
\* an account that exists: the parsed records, or the placeholder of its catch
checkPurchaseHistoryBytesView(data, walletKey, now) ==
    LET parsed == checkPurchaseHistoryParse(data, walletKey) IN
    IF parsed.ok THEN parsed.value
    ELSE << [item_id |-> 1, timestamp |-> now] >>

CodecInput(kind, id, price, uri, purchases) ==
    [pc |-> "input", kind |-> kind, id |-> id, price |-> price, uri |-> uri,
     purchases |-> purchases, full |-> <<>>, data |-> <<>>, decoder |-> "",
     out |-> IdleCodec.out, encoder |-> "", args |-> IdleCodec.args,
     payload |-> <<>>]

HistorySamples ==
    {<<>>} \cup { <<a>> : a \in RecordSamples }
           \cup { <<a, b>> : a \in RecordSamples, b \in RecordSamples }

\* what the view holds before the decoder is applied to a history account
EarlierViews == { <<>>, << [item_id |-> 2, timestamp |-> 2] >> }

\* the users the history accounts the decoder is applied to are stored for
HistoryUsers == {BuyerPublicKey, AdminPublicKey}

CodecInputs ==
    { CodecInput("item", id, price, uri, <<>>) :
        id \in U64Samples, price \in U64Samples, uri \in UriStrings }
    \cup { CodecInput("history", 0, 0, <<>>, p) : p \in HistorySamples }

\* the page with its wallet connected and its mount effect finished, and
\* a decoder about to be applied
InitCodec ==
    /\ shop = NoShop
    /\ items = [i \in ItemIds |-> NoItem]
    /\ history = [b \in Buyers |-> NoHistory]
    /\ balance = [b \in Buyers |-> InitialBalance]
    /\ admin = IdleAdmin
    /\ nAdminJobs = 0
    /\ wallet = [connected |-> TRUE]
    /\ isPurchasing = 0
    /\ shopItems = {}
    /\ fetchesPending = 0
    /\ refreshesPending = <<>>
    /\ runs = [s \in Slots |-> IdleRun]
    /\ nStarted = 0
    /\ alert = IdleAlert
    /\ codec \in CodecInputs
    /\ purchaseHistory \in (IF codec.kind = "history" THEN EarlierViews ELSE {<<>>})
    /\ derive = IdleDerive

CodecKeep == UNCHANGED <<chainVars, adminVars, runVars, alert, derive>>

\* main of the admin script: parseInt of the arguments, then addItem
\* encodes them; the program stores the fields behind the account tag
CodecAddItem ==
    /\ codec.pc = "input" /\ codec.kind = "item"
    /\ LET id == ToNumber(codec.id)
           price == ToNumber(codec.price)
           data == ItemAccountData(id, price, Utf8Encode(codec.uri))
       IN  codec' = [codec EXCEPT !.pc = "account", !.full = data, !.data = data,
                                  !.encoder = "addItem",
                                  !.args = [id |-> id, price |-> price, uri |-> codec.uri],
                                  !.payload = AddItemData(id, price, Utf8Encode(codec.uri))]
    /\ CodecKeep /\ UNCHANGED pageVars

\* the template `image:${image_url || ''}`
SimplifiedMetadata(image_url) == <<105, 109, 97, 103, 101, 58>> \o image_url

\* addItemWithMetadata: JSON.parse of the metadata file, the check of id and
\* price, the simplified metadata string, then its own encoder
CodecAddItemWithMetadata ==
    /\ codec.pc = "input" /\ codec.kind = "item"
    /\ LET id == ToNumber(codec.id)
           price == ToNumber(codec.price)
       IN  /\ id # 0 /\ price # 0
           /\ \E n \in 0..Len(codec.uri) :
                LET simplifiedMetadata == SimplifiedMetadata(SubSeq(codec.uri, n + 1, Len(codec.uri)))
                    data == ItemAccountData(id, price, Utf8Encode(simplifiedMetadata))
                IN  /\ simplifiedMetadata = codec.uri
                    /\ codec' = [codec EXCEPT
                           !.pc = "account", !.full = data, !.data = data,
                           !.encoder = "addItemWithMetadata",
                           !.args = [id |-> id, price |-> price, uri |-> simplifiedMetadata],
                           !.payload = AddItemWithMetadataData(id, price,
                                                               Utf8Encode(simplifiedMetadata))]
    /\ CodecKeep /\ UNCHANGED pageVars

\* a PurchaseHistory account with the given records, stored for the
\* connected buyer or for another user
CodecHistory ==
    /\ codec.pc = "input" /\ codec.kind = "history"
    /\ \E user \in HistoryUsers :
         LET data == HistoryAccountData(user, codec.purchases)
         IN  codec' = [codec EXCEPT !.pc = "account", !.full = data, !.data = data]
    /\ CodecKeep /\ UNCHANGED pageVars

\* getAccountInfo answers with a buffer that is cut short
CodecTruncate ==
    /\ codec.pc = "account"
    /\ \E n \in 0..(Len(codec.full) - 1) :
         codec' = [codec EXCEPT !.pc = "read", !.data = SubSeq(codec.full, 1, n)]
    /\ CodecKeep /\ UNCHANGED pageVars

CodecGetItem ==
    /\ codec.pc \in {"account", "read"} /\ codec.kind = "item"
    /\ codec' = [codec EXCEPT !.pc = "done", !.decoder = "getItem",
                              !.out = getItemDecode(codec.data)]
    /\ CodecKeep /\ UNCHANGED pageVars

CodecFetchItemDetails ==
    /\ codec.pc \in {"account", "read"} /\ codec.kind = "item"
    /\ codec' = [codec EXCEPT !.pc = "done", !.decoder = "fetchItemDetails",
                              !.out = fetchItemDetailsDecode(codec.data)]
    /\ CodecKeep /\ UNCHANGED pageVars

CodecCheckPurchaseHistory ==
    /\ codec.pc \in {"account", "read"} /\ codec.kind = "history"
    /\ wallet.connected
    /\ \E now \in ClockSamples :
         purchaseHistory' = checkPurchaseHistoryBytesView(codec.data, BuyerPublicKey, now)
    /\ codec' = [codec EXCEPT !.pc = "done", !.decoder = "checkPurchaseHistory",
                              !.out = checkPurchaseHistoryParse(codec.data, BuyerPublicKey)]
    /\ CodecKeep
    /\ UNCHANGED <<wallet, isPurchasing, shopItems, fetchesPending, refreshesPending>>

CodecNext ==
    \/ CodecAddItem
    \/ CodecAddItemWithMetadata
    \/ CodecHistory
    \/ CodecTruncate
    \/ CodecGetItem
    \/ CodecFetchItemDetails
    \/ CodecCheckPurchaseHistory

SpecCodec == InitCodec /\ [][CodecNext]_vars

(***************************************************************************)
(* The NetworkAlert component.                                             *)
(***************************************************************************)
\* SONIC_NETWORKS, then SOLANA_NETWORKS_CONFIG, in the order of their keys
SONIC_NETWORKS ==
    << [provider |-> "sonic", network |-> "mainnet-beta", name |-> "Sonic Mainnet Beta"],
       [provider |-> "sonic", network |-> "testnet", name |-> "Sonic Testnet"] >>

SOLANA_NETWORKS_CONFIG ==
    << [provider |-> "solana", network |-> "mainnet-beta", name |-> "Solana Mainnet Beta"],
       [provider |-> "solana", network |-> "testnet", name |-> "Solana Testnet"],
       [provider |-> "solana", network |-> "devnet", name |-> "Solana Devnet"] >>

Catalog == SONIC_NETWORKS \o SOLANA_NETWORKS_CONFIG

\* CURRENT_NETWORK: the testnet entry of the sonic provider
CURRENT_NETWORK == CHOOSE k \in 1..Len(Catalog) :
                      Catalog[k].provider = "sonic" /\ Catalog[k].network = "testnet"

\* the genesis hash the endpoint of a catalog entry answers with: every
\* entry is a chain of its own
GenesisHashOf(k) == k

\* the chains the RPC endpoint of the wallet's connection may belong to:
\* those of the catalog and one that is not in it
Clusters == 1..(Len(Catalog) + 1)

UnknownNetwork == [provider |-> "unknown", network |-> "unknown", name |-> "Unknown Network"]

\* useState<DetectedNetwork | null>(null)
NoNetwork == [provider |-> "", network |-> "", name |-> ""]

\* a catalog entry has the fingerprint of the live connection, but the
\* check keeps the unknown network
DetectedStaysUnknown(entry) == UnknownNetwork

\* the value of `detected` after a catalog entry matched
Detected(entry) == [provider |-> entry.provider, network |-> entry.network, name |-> entry.name]

\* the second loop runs whatever the first one found
AlwaysProbeSolana(detected) == TRUE

\* the SOLANA_NETWORKS_CONFIG loop runs only if no sonic entry matched
ProbeSolana(detected) == detected.provider = "unknown"

\* what the banner shows, "" when it is not rendered
Banner ==
    IF ~alert.mounted \/ ~wallet.connected \/ alert.isCorrectNetwork THEN ""
    ELSE IF alert.detectedNetwork = NoNetwork THEN "Unknown Network"
    ELSE alert.detectedNetwork.name

AlertKeep == UNCHANGED <<chainVars, adminVars, pageVars, runVars, codec, derive>>

\* the first effect: setMounted(true)
AlertMount ==
    /\ ~alert.mounted
    /\ alert' = [alert EXCEPT !.mounted = TRUE]
    /\ AlertKeep

\* the second effect calls checkNetwork, which awaits
\* connection.getGenesisHash()
AlertCheckStart ==
    /\ alert.mounted /\ wallet.connected
    /\ alert.pc = "idle"
    /\ \E cluster \in Clusters :
         alert' = [alert EXCEPT !.pc = "live", !.cluster = cluster]
    /\ AlertKeep

\* variant: the outer catch marks the page as on the wrong network
AlertAbortMarksWrong(a) == [a EXCEPT !.pc = "done", !.isCorrectNetwork = FALSE]

\* the outer catch of checkNetwork only logs
AlertAbort(a) == [a EXCEPT !.pc = "done"]

\* checkNetwork after getGenesisHash of its connection: it awaits the
\* genesis hash of the endpoint of CURRENT_NETWORK
LiveReturned(a, rpc) ==
    IF rpc = "throw" THEN AlertAbort(a)
    ELSE [a EXCEPT !.pc = "target", !.genesisHash = a.cluster]

\* the probe of catalog entry k is sent, or, past the last entry of the
\* loops that run, the result is reported: setDetectedNetwork and the toast
AlertProbeOrReport(a, k, detected) ==
    IF k <= Len(SONIC_NETWORKS) \/ (k <= Len(Catalog) /\ ProbeSolana(detected))
    THEN [a EXCEPT !.pc = "probe", !.k = k, !.detected = detected,
                   !.probed = Append(a.probed, k)]
    ELSE [a EXCEPT !.pc = "done", !.k = 0, !.detected = detected,
                   !.detectedNetwork = detected, !.toasts = a.toasts + 1]

\* checkNetwork after the genesis hash of the target: setIsCorrectNetwork,
\* and on a mismatch the first catalog entry is probed
TargetReturned(a, rpc) ==
    IF rpc = "throw" THEN AlertAbort(a)
    ELSE LET onCorrectNetwork == a.genesisHash = GenesisHashOf(CURRENT_NETWORK)
             b == [a EXCEPT !.isCorrectNetwork = onCorrectNetwork]
         IN  IF onCorrectNetwork THEN [b EXCEPT !.pc = "done"]
             ELSE AlertProbeOrReport(b, 1, UnknownNetwork)

\* the first entry after k that a loop still visits: a match breaks out of
\* the loop of its provider
AfterMatch(k) == IF k <= Len(SONIC_NETWORKS) THEN Len(SONIC_NETWORKS) + 1 ELSE Len(Catalog) + 1

\* checkNetwork after the probe of catalog entry a.k: its genesis hash
\* answered, or the probe threw and the catch inside the loop went on to
\* the next entry
ProbeReturned(a, rpc) ==
    LET k == a.k
        match == rpc = "ok" /\ GenesisHashOf(k) = a.genesisHash
    IN  IF match
        THEN AlertProbeOrReport([a EXCEPT !.matched = k], AfterMatch(k), Detected(Catalog[k]))
        ELSE AlertProbeOrReport([a EXCEPT !.failed = @ \cup (IF rpc = "throw" THEN {k} ELSE {})],
                                k + 1, a.detected)

\* getGenesisHash of the live connection answered or threw
AlertLiveReturn ==
    /\ alert.pc = "live"
    /\ \E rpc \in {"ok", "throw"} : alert' = LiveReturned(alert, rpc)
    /\ AlertKeep

\* the genesis hash of the target answered or threw
AlertTargetReturn ==
    /\ alert.pc = "target"
    /\ \E rpc \in {"ok", "throw"} : alert' = TargetReturned(alert, rpc)
    /\ AlertKeep

\* the probe of catalog entry alert.k answered or threw
AlertProbeReturn ==
    /\ alert.pc = "probe"
    /\ \E rpc \in {"ok", "throw"} : alert' = ProbeReturned(alert, rpc)
    /\ AlertKeep

\* the locals of the check that is under way, and the component with the
\* locals of a check in their place
Locals(a) ==
    [pc |-> a.pc, cluster |-> a.cluster, genesisHash |-> a.genesisHash,
     detected |-> a.detected, k |-> a.k, probed |-> a.probed,
     matched |-> a.matched, failed |-> a.failed]

WithLocals(a, c) ==
    [a EXCEPT !.pc = c.pc, !.cluster = c.cluster, !.genesisHash = c.genesisHash,
              !.detected = c.detected, !.k = c.k, !.probed = c.probed,
              !.matched = c.matched, !.failed = c.failed]

\* a dependency of the second effect (connected, publicKey, connection)
\* changes while a check awaits an answer: the effect runs again and calls
\* checkNetwork with the connection of that render; the check that is under
\* way is not cancelled
AlertRestart ==
    /\ alert.mounted /\ wallet.connected
    /\ alert.pc \in {"live", "target", "probe"}
    /\ alert.earlier.pc = "idle"
    /\ \E cluster \in Clusters :
         alert' = [WithLocals(alert, [IdleCheck EXCEPT !.pc = "live", !.cluster = cluster])
                      EXCEPT !.earlier = Locals(alert)]
    /\ AlertKeep

\* an await of the check that was started earlier is answered or throws:
\* it goes on as checkNetwork does, with its own locals and the setters of
\* the component
AlertEarlierReturn ==
    /\ alert.earlier.pc \in {"live", "target", "probe"}
    /\ \E rpc \in {"ok", "throw"} :
         LET m == WithLocals(alert, alert.earlier)
             n == CASE m.pc = "live" -> LiveReturned(m, rpc)
                    [] m.pc = "target" -> TargetReturned(m, rpc)
                    [] m.pc = "probe" -> ProbeReturned(m, rpc)
         IN  alert' = [WithLocals(n, Locals(alert)) EXCEPT !.earlier = Locals(n)]
    /\ AlertKeep

AlertNext ==
    \/ AlertMount
    \/ AlertCheckStart
    \/ AlertLiveReturn
    \/ AlertTargetReturn
    \/ AlertProbeReturn

(***************************************************************************)
(* The address derivations of the page and of each script.                 *)
(***************************************************************************)
\* purchase-item.js
CliGetShopPDA == FindProgramAddress(<<SeedShop>>, ProgramIdBytes)

\* variant: only the low byte of the id is written
CliGetItemPDALowByte(id) == FindProgramAddress(<<SeedItem, LE(id % 256, 8)>>, ProgramIdBytes)

CliGetItemPDA(id) == FindProgramAddress(<<SeedItem, LE(id, 8)>>, ProgramIdBytes)
CliGetHistoryPDA(buyerPublicKey) ==
    FindProgramAddress(<<SeedHistory, toBuffer(buyerPublicKey)>>, ProgramIdBytes)

\* upload-metadata.js: the admin script, and the update script after it
AdminGetShopPDA == FindProgramAddress(<<SeedShop>>, ProgramIdBytes)
AdminGetItemPDA(id) == FindProgramAddress(<<SeedItem, LE(id, 8)>>, ProgramIdBytes)
UpdateGetItemPDA(id) == FindProgramAddress(<<SeedItem, LE(id, 8)>>, ProgramIdBytes)

\* the script that adds an item from a metadata file
MetadataGetShopPDA == FindProgramAddress(<<SeedShop>>, ProgramIdBytes)
MetadataGetItemPDA(id) == FindProgramAddress(<<SeedItem, LE(id, 8)>>, ProgramIdBytes)

\* the script that prints a purchase history
HistoryGetHistoryPDA(buyerPublicKey) ==
    FindProgramAddress(<<SeedHistory, toBuffer(buyerPublicKey)>>, ProgramIdBytes)

\* the ids and the buyers the derivations are applied to; BigInt(id) is
\* exact for a number that holds an integer
DeriveIds == {0, 1, 255, 256, 65535, 65536, 16777216}
DeriveBuyers == {BuyerPublicKey, AdminPublicKey}

Scripts == {"page", "purchase-item", "upload-metadata", "update-item", "add-item-with-metadata",
            "history"}

\* the addresses a script has no derivation for are left out of its record
Derived(script, idA, idB, buyerA, buyerB) ==
    CASE script = "page" ->
           [shop |-> getShopPDA, itemA |-> getItemPDA(idA), itemB |-> getItemPDA(idB),
            historyA |-> getHistoryPDA(buyerA), historyB |-> getHistoryPDA(buyerB)]
      [] script = "purchase-item" ->
           [shop |-> CliGetShopPDA, itemA |-> CliGetItemPDA(idA), itemB |-> CliGetItemPDA(idB),
            historyA |-> CliGetHistoryPDA(buyerA), historyB |-> CliGetHistoryPDA(buyerB)]
      [] script = "upload-metadata" ->
           [shop |-> AdminGetShopPDA, itemA |-> AdminGetItemPDA(idA),
            itemB |-> AdminGetItemPDA(idB)]
      [] script = "update-item" ->
           [itemA |-> UpdateGetItemPDA(idA), itemB |-> UpdateGetItemPDA(idB)]
      [] script = "add-item-with-metadata" ->
           [shop |-> MetadataGetShopPDA, itemA |-> MetadataGetItemPDA(idA),
            itemB |-> MetadataGetItemPDA(idB)]
      [] script = "history" ->
           [historyA |-> HistoryGetHistoryPDA(buyerA), historyB |-> HistoryGetHistoryPDA(buyerB)]

InitDerive ==
    /\ shop = NoShop
    /\ items = [i \in ItemIds |-> NoItem]
    /\ history = [b \in Buyers |-> NoHistory]
    /\ balance = [b \in Buyers |-> InitialBalance]
    /\ admin = IdleAdmin
    /\ nAdminJobs = 0
    /\ wallet = [connected |-> FALSE]
    /\ isPurchasing = 0
    /\ purchaseHistory = <<>>
    /\ shopItems = {}
    /\ fetchesPending = 1
    /\ refreshesPending = <<>>
    /\ runs = [s \in Slots |-> IdleRun]
    /\ nStarted = 0
    /\ alert = IdleAlert
    /\ codec = IdleCodec
    /\ \E idA \in DeriveIds, idB \in DeriveIds, buyerA \in DeriveBuyers, buyerB \in DeriveBuyers :
         derive = [pc |-> "input", idA |-> idA, idB |-> idB, buyerA |-> buyerA,
                   buyerB |-> buyerB, by |-> {}, out |-> [s \in {} |-> <<>>]]

\* a script, or the page, derives the addresses it has a derivation for
DeriveBy(script) ==
    /\ derive.pc = "input"
    /\ script \notin derive.by
    /\ derive' = [derive EXCEPT
          !.by = @ \cup {script},
          !.out = [s \in derive.by \cup {script} |->
                      IF s = script
                      THEN Derived(script, derive.idA, derive.idB, derive.buyerA, derive.buyerB)
                      ELSE derive.out[s]]]
    /\ UNCHANGED <<chainVars, adminVars, pageVars, runVars, alert, codec>>

DeriveNext == \E script \in Scripts : DeriveBy(script)

SpecDerive == InitDerive /\ [][DeriveNext]_vars

(***************************************************************************)
(* Specifications.                                                         *)
(***************************************************************************)
AdminNext ==
    \/ AdminStartInitializeShop
    \/ AdminShopReadReturn
    \/ AdminStartAddItem
    \/ AdminStartAddItemWithMetadata
    \/ AdminItemReadReturn
    \/ AdminSendReturn
    \/ AdminExecute
    \/ AdminConfirmReturn

PageNext ==
    \/ WalletConnect
    \/ FetchItemsDone
    \/ EffectRefreshReturn
    \/ ClickDisconnected

PageRunNext(s) ==
    \/ PageShopReturn(s)
    \/ PageItemReturn(s)
    \/ PageBalanceReturn(s)
    \/ PageProbeReturn(s)
    \/ PageBlockhashReturn(s)
    \/ PageSignReturn(s)
    \/ PageSendReturn(s)
    \/ PageConfirmReturn(s)
    \/ PageRefreshReturn(s)

CliRunNext(s) ==
    \/ CliItemReturn(s)
    \/ CliProbeReturn(s)
    \/ CliBalanceReturn(s)
    \/ CliSendReturn(s)
    \/ CliConfirmReturn(s)
    \/ CliRefreshReturn(s)

RunNext(s) ==
    \/ PageRunNext(s)
    \/ CliRunNext(s)
    \/ ChainExecute(s)

StartNext ==
    \E s \in Slots, item \in ItemIds : PageStart(s, item) \/ CliStart(s, item)

Next ==
    \/ AdminNext
    \/ PageNext
    \/ StartNext
    \/ \E s \in Slots : RunNext(s)

Spec == Init /\ [][Next]_vars

\* one buyer, one attempt after the other: an attempt starts only when no
\* other attempt is in flight
NoneInFlight == \A s \in Slots : ~InFlight(s)

SeqNext ==
    \/ AdminNext
    \/ PageNext
    \/ NoneInFlight /\ StartNext
    \/ \E s \in Slots : RunNext(s)

SpecSeq == Init /\ [][SeqNext]_vars

\* the shop page next to its NetworkAlert, over a shop the admin scripts
\* have set up: the wallet connects, the alert checks the network, and the
\* buyer makes one purchase attempt on the page
DeployedItem(a) ==
    [exists |-> TRUE, id |-> a.id, price |-> a.price,
     metadata_uri |-> CHOOSE u \in Uris : TRUE]

InitNet ==
    /\ shop = [exists |-> TRUE, admin |-> AdminPublicKey,
               item_count |-> Cardinality(MetadataFiles \cup AddItemArgs)]
    /\ items = [i \in ItemIds |->
                  DeployedItem(CHOOSE a \in MetadataFiles \cup AddItemArgs : a.id = i)]
    /\ history = [b \in Buyers |-> NoHistory]
    /\ balance = [b \in Buyers |-> InitialBalance]
    /\ admin = IdleAdmin
    /\ nAdminJobs = Cardinality(MetadataFiles \cup AddItemArgs) + 1
    /\ wallet = [connected |-> FALSE]
    /\ isPurchasing = 0
    /\ purchaseHistory = <<>>
    /\ shopItems = {}
    /\ fetchesPending = 1
    /\ refreshesPending = <<>>
    /\ runs = [s \in Slots |-> IdleRun]
    /\ nStarted = 0
    /\ alert = IdleAlert
    /\ codec = IdleCodec
    /\ derive = IdleDerive

NetNext ==
    \/ AlertNext
    \/ WalletConnect
    \/ FetchItemsDone
    \/ EffectRefreshReturn
    \/ \E item \in ItemIds : PageStart(1, item)
    \/ PageRunNext(1)
    \/ ChainExecute(1)

SpecNet == InitNet /\ [][NetNext]_vars

\* purchase attempts on the page and from the script over a shop the admin
\* scripts have set up, with the wallet connected and the items rendered,
\* where every call an attempt awaits is answered (or fails) and a
\* transaction a node took is executed
InitLive ==
    /\ shop = [exists |-> TRUE, admin |-> AdminPublicKey,
               item_count |-> Cardinality(MetadataFiles \cup AddItemArgs)]
    /\ items = [i \in ItemIds |->
                  DeployedItem(CHOOSE a \in MetadataFiles \cup AddItemArgs : a.id = i)]
    /\ history = [b \in Buyers |-> NoHistory]
    /\ balance = [b \in Buyers |-> InitialBalance]
    /\ admin = IdleAdmin
    /\ nAdminJobs = Cardinality(MetadataFiles \cup AddItemArgs) + 1
    /\ wallet = [connected |-> TRUE]
    /\ isPurchasing = 0
    /\ purchaseHistory = <<>>
    /\ shopItems = ItemIds
    /\ fetchesPending = 0
    /\ refreshesPending = <<>>
    /\ runs = [s \in Slots |-> IdleRun]
    /\ nStarted = 0
    /\ alert = IdleAlert
    /\ codec = IdleCodec
    /\ derive = IdleDerive

LiveNext ==
    \/ StartNext
    \/ \E s \in Slots : RunNext(s)

SpecLive == InitLive /\ [][LiveNext]_vars /\ \A s \in Slots : WF_vars(RunNext(s))


\* the admin scripts, one invocation after another, beside a shop page on
\* which no purchase is started
SpecAdmin == Init /\ [][AdminNext \/ PageNext]_vars

\* the NetworkAlert component of a page whose wallet is connected, with the
\* second effect running again while a check is under way
OverlapNext ==
    \/ AlertNext
    \/ AlertRestart
    \/ AlertEarlierReturn

SpecOverlap == InitLive /\ [][OverlapNext]_vars

\* the shop page with a wallet that connects and disconnects, and one
\* purchase attempt
WalletNext ==
    \/ WalletDisconnect
    \/ PageNext
    \/ \E item \in ItemIds : PageStart(1, item)
    \/ PageRunNext(1)
    \/ ChainExecute(1)

SpecWallet == InitLive /\ [][WalletNext]_vars

(***************************************************************************)
(* Properties.                                                             *)
(***************************************************************************)
Has(log, e) == \E i \in 1..Len(log) : log[i] = e
Count(log, e) == Cardinality({i \in 1..Len(log) : log[i] = e})
\* position of the first e in log, 0 when there is none
First(log, e) == IF Has(log, e) THEN CHOOSE i \in 1..Len(log) :
                                        log[i] = e /\ \A j \in 1..(i - 1) : log[j] # e
                 ELSE 0

\* the attempt holds a transaction it built and has not returned
Built(s) == InFlight(s) /\ runs[s].tx # <<>>
\* the instruction of a built transaction that goes to the shop program
PurchaseIx(s) == runs[s].tx[Len(runs[s].tx)]
TagOf(exists) == IF exists THEN INSTRUCTION_DISCRIMINATORS.subsequentPurchase
                 ELSE INSTRUCTION_DISCRIMINATORS.firstPurchase

\* C1: in every purchase run that has built its instruction the tag is
\* first_purchase when the run's history probe found no account and
\* subsequent_purchase when it found one, and it is never anything else
C1_TagFollowsProbe ==
    \A s \in Slots :
        Built(s) =>
            /\ PurchaseIx(s).data = TagOf(runs[s].historyExists)
            /\ PurchaseIx(s).data \in {INSTRUCTION_DISCRIMINATORS.firstPurchase,
                                       INSTRUCTION_DISCRIMINATORS.subsequentPurchase}
            /\ \A i \in 1..Len(runs[s].tx) :
                   runs[s].tx[i].programId = ShopProgramId => i = Len(runs[s].tx)

\* a page run built first_purchase while a CLI run built subsequent_purchase
C1_Witness ==
    \E s, t \in Slots :
        /\ Built(s) /\ runs[s].path = "page" /\ ~runs[s].historyExists
        /\ PurchaseIx(s).data = INSTRUCTION_DISCRIMINATORS.firstPurchase
        /\ Built(t) /\ runs[t].path = "cli" /\ runs[t].historyExists
        /\ PurchaseIx(t).data = INSTRUCTION_DISCRIMINATORS.subsequentPurchase

\* the run read the balance and went on past the gate
PastGate(s) == InFlight(s) /\ Has(runs[s].log, "getBalance") /\ runs[s].pc # "balance"
\* the run ended at the gate
StoppedAtGate(s) == runs[s].pc = "done" /\ runs[s].reason = "InsufficientFunds"

\* C2: the balance gate compares lamports with lamports: a run goes on to
\* instruction building only when the balance it read is at least the raw
\* price it read, and a run stopped by the gate asked for no blockhash, no
\* signature and no transmission
C2_BalanceGate ==
    \A s \in Slots :
        /\ PastGate(s) => runs[s].balanceRead >= runs[s].priceRead
        /\ StoppedAtGate(s) =>
              /\ ~Has(runs[s].log, "getLatestBlockhash")
              /\ ~Has(runs[s].log, "sign")
              /\ ~Has(runs[s].log, "send")

\* a run passed the gate with a balance one lamport below the price
C2_Witness ==
    \E s \in Slots :
        /\ PastGate(s)
        /\ runs[s].balanceRead + 1 = runs[s].priceRead
        /\ Has(runs[s].log, "send")

\* C3: when the Item account does not exist the run has ended as Failed
\* with ItemNotFound, built nothing, asked for no signature and sent nothing
C3_ItemNotFound ==
    \A s \in Slots :
        runs[s].itemSeen = "absent" =>
            /\ runs[s].pc = "done"
            /\ runs[s].outcome = "Failed" /\ runs[s].reason = "ItemNotFound"
            /\ runs[s].tx = <<>> /\ runs[s].status = "none"
            /\ ~Has(runs[s].log, "build")
            /\ ~Has(runs[s].log, "sign")
            /\ ~Has(runs[s].log, "send")

\* a run asked for an item whose account is not on the chain
C3_Witness ==
    \E s \in Slots :
        /\ runs[s].itemSeen = "absent"
        /\ ~items[runs[s].itemId].exists
        /\ runs[s].reason = "ItemNotFound"

ExpectedPurchaseKeys(buyer, itemId, adminKey) ==
    << [pubkey |-> buyer, isSigner |-> TRUE, isWritable |-> TRUE],
       [pubkey |-> getShopPDA, isSigner |-> FALSE, isWritable |-> FALSE],
       [pubkey |-> getItemPDA(itemId), isSigner |-> FALSE, isWritable |-> FALSE],
       [pubkey |-> adminKey, isSigner |-> FALSE, isWritable |-> TRUE],
       [pubkey |-> getHistoryPDA(buyer), isSigner |-> FALSE, isWritable |-> TRUE],
       [pubkey |-> SystemProgramId, isSigner |-> FALSE, isWritable |-> FALSE] >>

\* C4: every purchase instruction built, with either tag, has the six
\* account references buyer, shop, item, admin, history, system program in
\* this order with the flags of the contract, and its data is the 8-byte
\* tag and nothing else
C4_PurchaseAccounts ==
    \A s \in Slots :
        Built(s) =>
            /\ Len(PurchaseIx(s).keys) = 6
            /\ PurchaseIx(s).keys =
                  ExpectedPurchaseKeys(runs[s].buyer, runs[s].itemId, runs[s].adminPubkey)
            /\ Len(PurchaseIx(s).data) = 8

\* two runs hold instructions with different tags and the same references
C4_Witness ==
    \E s, t \in Slots :
        /\ Built(s) /\ Built(t)
        /\ runs[s].path = "page" /\ runs[t].path = "cli"
        /\ runs[s].itemId = runs[t].itemId
        /\ PurchaseIx(s).data # PurchaseIx(t).data
        /\ PurchaseIx(s).keys = PurchaseIx(t).keys

\* the transactions the clients hold at the moment
BuiltTransactions ==
    {runs[s].tx : s \in {t \in Slots : runs[t].tx # <<>>}}
        \cup (IF admin.tx # <<>> THEN {admin.tx} ELSE {})

\* C5: in every transaction built for the shop program the compute budget
\* instruction is the first instruction and the one shop instruction follows
C5_ComputeBudgetFirst ==
    \A tx \in BuiltTransactions :
        /\ Len(tx) = 2
        /\ tx[1].programId = ComputeBudgetProgramId
        /\ tx[1] = setComputeUnitLimit(ComputeUnits)
        /\ tx[2].programId = ShopProgramId

\* an admin transaction and a purchase transaction are held at once
C5_Witness ==
    /\ admin.tx # <<>> /\ Discriminator(admin.tx[2]) = AddItemDiscriminator
    /\ \E s \in Slots : Built(s) /\ runs[s].status = "pending"

\* C6: a run transmits at most one transaction, with one build and one
\* signing request, and a run whose transaction was reverted, or that
\* failed at signing, transmission or confirmation, has ended as Failed
\* with that reason; it ends as Confirmed only when its transaction was
\* executed without error
C6_OneTransmissionFailuresReported ==
    \A s \in Slots :
        /\ Count(runs[s].log, "build") <= 1
        /\ Count(runs[s].log, "sign") <= 1
        /\ Count(runs[s].log, "send") <= 1
        /\ (runs[s].pc = "done" /\ runs[s].status = "err") =>
              /\ runs[s].outcome = "Failed"
              /\ runs[s].reason \in {"TransactionReverted", "ConfirmationTimeout"}
        /\ runs[s].outcome = "Confirmed" => runs[s].status = "ok"
        /\ runs[s].outcome = "Failed" => runs[s].reason # "none"

\* a page run whose transaction was reverted has ended as Confirmed
C6_Witness ==
    \E s \in Slots :
        /\ runs[s].path = "page" /\ runs[s].pc = "done"
        /\ runs[s].status = "err" /\ runs[s].outcome = "Confirmed"

\* the run has handed its transaction to the network and has not returned
Sent(s) == Built(s) /\ Has(runs[s].log, "send")

\* C7 as stated: the tag of every submitted instruction matches the
\* existence of the history account at the time of submission
C7_TagMatchesAtSubmission ==
    \A s \in Slots : Sent(s) => PurchaseIx(s).data = TagOf(runs[s].existsAtSend)

\* C7: a submitted subsequent_purchase always finds the history account in
\* place, and a first_purchase is submitted while the account exists only
\* when the account was created after the run's own probe
C7_TagStaleOnlyByLaterCreation ==
    \A s \in Slots :
        Sent(s) =>
            /\ PurchaseIx(s).data = INSTRUCTION_DISCRIMINATORS.subsequentPurchase
                  => runs[s].existsAtSend
            /\ (PurchaseIx(s).data = INSTRUCTION_DISCRIMINATORS.firstPurchase
                   /\ runs[s].existsAtSend) => ~runs[s].probeTruth

\* a first_purchase was submitted after another attempt had created the
\* history account
C7_Witness ==
    \E s \in Slots :
        /\ Sent(s)
        /\ PurchaseIx(s).data = INSTRUCTION_DISCRIMINATORS.firstPurchase
        /\ runs[s].existsAtSend /\ ~runs[s].probeTruth
        /\ history[runs[s].buyer].exists

\* C8: every attempt that built an instruction made one history read of its
\* own before building, and its tag is the one that read selects, whatever
\* the other attempts read and whatever the local view holds
C8_OwnProbe ==
    \A s \in Slots :
        Built(s) =>
            /\ Count(runs[s].log, "getHistory") = 1
            /\ First(runs[s].log, "getHistory") < First(runs[s].log, "build")
            /\ PurchaseIx(s).data = TagOf(runs[s].probeTruth)

\* two overlapping attempts whose probes differ hold different tags, and
\* the later tag is not what the local view would give
C8_Witness ==
    \E s, t \in Slots :
        /\ Built(s) /\ Built(t)
        /\ ~runs[s].probeTruth /\ runs[t].probeTruth
        /\ PurchaseIx(s).data # PurchaseIx(t).data
        /\ purchaseHistory = <<>>

\* C9: in every run the Item read comes first, then the balance read and
\* the gate, then the history probe, then the build; no history probe
\* before the balance was read
C9_StepOrder ==
    \A s \in Slots :
        LET log == runs[s].log IN
        /\ Has(log, "getBalance") =>
              Has(log, "getItem") /\ First(log, "getItem") < First(log, "getBalance")
        /\ Has(log, "getHistory") =>
              Has(log, "getBalance") /\ First(log, "getBalance") < First(log, "getHistory")
        /\ Has(log, "build") =>
              Has(log, "getHistory") /\ First(log, "getHistory") < First(log, "build")

\* a CLI run has asked for the history account and not yet for the balance
C9_Witness ==
    \E s \in Slots :
        /\ runs[s].path = "cli"
        /\ Has(runs[s].log, "getHistory") /\ ~Has(runs[s].log, "getBalance")

EarlierSlots(s) == {t \in Slots : t < s}

\* C10 as stated: with one attempt after the other, an attempt emits
\* subsequent_purchase exactly when an earlier attempt ended as Confirmed
C10_FirstUntilConfirmed ==
    \A s \in Slots :
        Built(s) =>
            (PurchaseIx(s).data = INSTRUCTION_DISCRIMINATORS.subsequentPurchase
                <=> \E t \in EarlierSlots(s) : runs[t].outcome = "Confirmed")

\* C10: with one attempt after the other, subsequent_purchase is emitted
\* only after the transaction of an earlier attempt was executed without
\* error, whatever that attempt reported, and always after an earlier
\* attempt that ended as Confirmed with its transaction executed
C10_FirstUntilLanded ==
    \A s \in Slots :
        Built(s) =>
            /\ PurchaseIx(s).data = INSTRUCTION_DISCRIMINATORS.subsequentPurchase
                  => \E t \in EarlierSlots(s) : runs[t].status = "ok"
            /\ (\E t \in EarlierSlots(s) :
                    runs[t].outcome = "Confirmed" /\ runs[t].status = "ok")
                  => PurchaseIx(s).data = INSTRUCTION_DISCRIMINATORS.subsequentPurchase

\* an attempt that ended as Failed had its transaction executed, and the
\* next attempt emits subsequent_purchase
C10_Witness ==
    \E s \in Slots :
        /\ Built(s)
        /\ PurchaseIx(s).data = INSTRUCTION_DISCRIMINATORS.subsequentPurchase
        /\ \E t \in EarlierSlots(s) :
              runs[t].outcome = "Failed" /\ runs[t].status = "ok"
        /\ \A t \in EarlierSlots(s) : runs[t].outcome # "Confirmed"

\* ---------------------------------------------------------------------
\* C11

IsPrefix(a, b) == Len(a) <= Len(b) /\ SubSeq(b, 1, Len(a)) = a

\* C11: for the connected buyer the local purchases view only grows: in
\* every step the view before the step is a prefix of the view after it
\* (its length never decreases, no record is removed, reordered or changed)
C11_ViewOnlyGrows ==
    [][IsPrefix(purchaseHistory, purchaseHistory')]_vars

\* the view shows a record while the refresh the mount effect started
\* before that record existed has not been answered yet
C11_Witness ==
    /\ wallet.connected
    /\ refreshesPending # <<>>
    /\ Len(purchaseHistory) > Head(refreshesPending)

\* ---------------------------------------------------------------------
\* C12

\* the purchase records that lie whole in the data of a history account
RecordsInBuffer(data) ==
    IF Len(data) < 44 THEN {}
    ELSE LET n == (Len(data) - 44) \div 16
         IN  { ParseRecords(data, n)[i] : i \in 1..n }

\* C12: a decode failure is surfaced and never replaced by a default: once
\* the parse of a history account has failed, the local view holds no
\* record that was not decoded from the bytes of the account
C12_NoRecordBesidesDecoded ==
    (codec.pc = "done" /\ codec.decoder = "checkPurchaseHistory" /\ ~codec.out.ok)
        => \A i \in 1..Len(purchaseHistory) :
              purchaseHistory[i] \in RecordsInBuffer(codec.data)

\* the parse of a history account that holds a record failed because the
\* buffer ends inside the second record
C12_Witness ==
    /\ codec.pc = "done" /\ codec.decoder = "checkPurchaseHistory"
    /\ codec.out = Thrown("RangeError")
    /\ Len(codec.purchases) = 2
    /\ Len(codec.data) >= 60

\* ---------------------------------------------------------------------
\* C13

\* the buffer the decoder was given ends before the fields it declares
TooShort == Len(codec.data) < Len(codec.full)

\* C13: decoding an Item or PurchaseHistory buffer that is too short for
\* the fields it declares always fails; no decoder returns a string or a
\* list shorter than its length prefix declared
C13_TooShortAlwaysFails ==
    (codec.pc = "done" /\ TooShort) => ~codec.out.ok

\* a decoder was given an Item buffer that ends inside the metadata_uri
\* its length prefix declares
C13_Witness ==
    /\ codec.pc = "done" /\ codec.kind = "item"
    /\ TooShort
    /\ Len(codec.data) >= 28
    /\ readLE(codec.data, 24, 4) > Len(codec.data) - 28

\* ---------------------------------------------------------------------
\* C14

\* C14: for every id and price and every metadata_uri, decoding the bytes
\* the add_item encoder produced, behind the account tag, returns the same
\* id, the same price in smallest units and the same metadata_uri
C14_ItemRoundTrip ==
    (codec.pc = "done" /\ codec.decoder = "getItem" /\ ~TooShort)
        => /\ codec.out.ok
           /\ codec.out.value.id = codec.id
           /\ codec.out.value.price = codec.price
           /\ codec.out.value.metadataUri = codec.uri

\* getItem decoded the whole account of an item whose id and price are
\* integers that are not numbers, with a metadata_uri of a two-byte character
C14_Witness ==
    /\ codec.pc = "done" /\ codec.decoder = "getItem" /\ ~TooShort
    /\ ToNumber(codec.id) # codec.id
    /\ ToNumber(codec.price) # codec.price
    /\ Len(Utf8Encode(codec.uri)) > Len(codec.uri)
    /\ codec.out.ok
    /\ codec.out.value.metadataUri = codec.uri

\* ---------------------------------------------------------------------
\* C15

\* the catalog entries whose chain is the one behind the live connection
LiveEntries == { k \in 1..Len(Catalog) : GenesisHashOf(k) = alert.cluster }

\* the live connection is on a chain of the catalog that is not the target
OnOtherKnownNetwork ==
    /\ alert.cluster # GenesisHashOf(CURRENT_NETWORK)
    /\ LiveEntries # {}

workflowVars == <<chainVars, adminVars, pageVars, runVars>>

\* C16: a network mismatch never blocks an operation. Whatever the check
\* reported, and whether or not it has finished, a click on an enabled
\* Purchase button with a connected wallet starts an attempt and an attempt
\* in flight can take its next step; the steps of the check change nothing
\* but the state of the alert
C16_MismatchNeverBlocks ==
    /\ [](\A item \in ItemIds :
            (wallet.connected /\ ButtonEnabled(item) /\ NextSlot(1))
                => ENABLED PageStart(1, item))
    /\ []((runs[1].path = "page" /\ InFlight(1))
            => ENABLED (PageRunNext(1) \/ ChainExecute(1)))
    /\ [][alert' # alert => UNCHANGED workflowVars]_vars

\* the check has reported a wrong network, the banner names it, and an
\* attempt on the page ended as Confirmed with its record in the view
C16_Witness ==
    /\ alert.pc = "done" /\ ~alert.isCorrectNetwork
    /\ Banner = "Solana Devnet"
    /\ alert.toasts = 1
    /\ runs[1].path = "page" /\ runs[1].outcome = "Confirmed" /\ runs[1].status = "ok"
    /\ Len(purchaseHistory) = 1

\* ---------------------------------------------------------------------
\* C17

IsBytes(b, n) == Len(b) = n /\ \A i \in 1..n : b[i] \in 0..255

\* the address is derived for the shop program from the seeds of an Item
ItemAddress(a, id) ==
    /\ a.owner = ProgramIdBytes
    /\ Len(a.seeds) = 2
    /\ a.seeds[1] = SeedItem
    /\ IsBytes(a.seeds[2], 8) /\ FromLE(a.seeds[2]) = id

HistoryAddress(a, buyer) ==
    /\ a.owner = ProgramIdBytes
    /\ Len(a.seeds) = 2
    /\ a.seeds[1] = SeedHistory
    /\ IsBytes(a.seeds[2], PUBKEY_LEN) /\ PublicKey(a.seeds[2]) = buyer

DerivedBy(s, f) == s \in derive.by /\ f \in DOMAIN derive.out[s]

\* C17: the page and every script derive the Shop address from ["shop"],
\* an Item address from ["item", id as 8 bytes little-endian] and a History
\* address from ["history", the 32 bytes of the buyer], with the program
\* id: the same inputs give the same address everywhere, different ids
\* give different seed lists, and so do different buyers
C17_AddressDerivation ==
    \A s \in derive.by :
        LET o == derive.out[s] IN
        /\ "shop" \in DOMAIN o =>
              o.shop = [seeds |-> <<SeedShop>>, owner |-> ProgramIdBytes]
        /\ "itemA" \in DOMAIN o =>
              /\ ItemAddress(o.itemA, derive.idA)
              /\ ItemAddress(o.itemB, derive.idB)
        /\ "historyA" \in DOMAIN o =>
              /\ HistoryAddress(o.historyA, derive.buyerA)
              /\ HistoryAddress(o.historyB, derive.buyerB)
        /\ \A t \in derive.by :
              /\ \A f \in DOMAIN o \cap DOMAIN derive.out[t] : o[f] = derive.out[t][f]
              /\ (DerivedBy(s, "itemA") /\ DerivedBy(t, "itemB") /\ derive.idA # derive.idB)
                    => o.itemA.seeds # derive.out[t].itemB.seeds
              /\ (DerivedBy(s, "historyA") /\ DerivedBy(t, "historyB")
                    /\ derive.buyerA # derive.buyerB)
                    => o.historyA.seeds # derive.out[t].historyB.seeds

\* the page and every script have derived the addresses of two ids that
\* share their low byte and of two different buyers
C17_Witness ==
    /\ derive.by = Scripts
    /\ derive.idA = 65536 /\ derive.idB = 256
    /\ derive.buyerA # derive.buyerB
    /\ derive.out["page"].itemA = derive.out["update-item"].itemA
    /\ derive.out["page"].historyB = derive.out["history"].historyB

\* ---------------------------------------------------------------------
\* C18

\* the first e1 of the log lies before its first e2
Before(log, e1, e2) == Has(log, e1) /\ First(log, e1) < First(log, e2)

\* the attempt in slot s ends in this step because the wallet did not sign
SigningRejectedNow(s) ==
    runs[s].pc = "sign" /\ runs'[s].reason = "SigningRejected"

Ended(s) == runs[s].pc = "done" /\ runs[s].outcome \in {"Confirmed", "Failed"}

\* the attempt in slot s returns in this step
ReturnsNow(s) == InFlight(s) /\ runs'[s].pc = "done"

\* C19: when every call an attempt awaits is answered or fails, every
\* started attempt ends, as Confirmed or as Failed and never as both: the
\* outcome of an ended attempt does not change, the step in which an attempt
\* of the page ends clears the in-progress marker, and a marker that is set
\* is cleared in the end
C19_EveryRunEnds ==
    /\ \A s \in Slots : InFlight(s) ~> Ended(s)
    /\ (isPurchasing # 0) ~> (isPurchasing = 0)
    /\ [](\A s \in Slots : runs[s].pc = "done" => Ended(s))
    /\ [][\A s \in Slots :
            /\ runs[s].pc = "done"
                  => runs'[s].pc = "done" /\ runs'[s].outcome = runs[s].outcome
            /\ (ReturnsNow(s) /\ runs[s].path = "page") => isPurchasing' = 0]_vars

\* two attempts of the page have ended, one as Confirmed and one as
\* Failed after its transaction was sent, and the marker is clear
C19_Witness ==
    /\ \A s \in Slots : runs[s].path = "page" /\ Ended(s)
    /\ \E s \in Slots : runs[s].outcome = "Confirmed"
    /\ \E s \in Slots : runs[s].outcome = "Failed" /\ Has(runs[s].log, "send")
    /\ isPurchasing = 0

\* ---------------------------------------------------------------------
\* C20

\* the probe of entry k answered with the fingerprint of the live connection
Matches(k) == k \notin alert.failed /\ GenesisHashOf(k) = alert.genesisHash

\* C20: when the live fingerprint equals the target's the check reports ok
\* and probes no catalog endpoint; otherwise it probes the catalog in its
\* order, the entries of the first provider and then those of the second,
\* probes no entry after the first that matched, and reports Unknown
\* Network only if every entry was probed and none matched
C20_ProbeOrder ==
    /\ alert.genesisHash = GenesisHashOf(CURRENT_NETWORK) => alert.isCorrectNetwork
    /\ alert.isCorrectNetwork
          => alert.probed = <<>> /\ alert.toasts = 0 /\ Banner = ""
    /\ ~alert.isCorrectNetwork => Len(alert.probed) >= 1
    /\ \A i \in 1..Len(alert.probed) :
          /\ alert.probed[i] = i
          /\ i < Len(alert.probed) => ~Matches(i)
          /\ i > Len(SONIC_NETWORKS) => Catalog[i].provider = "solana"
    /\ alert.matched # 0
          => alert.probed[Len(alert.probed)] = alert.matched /\ Matches(alert.matched)
    /\ (alert.pc = "done" /\ alert.detectedNetwork = UnknownNetwork)
          => /\ Len(alert.probed) = Len(Catalog)
             /\ \A k \in 1..Len(Catalog) : ~Matches(k)
    /\ (alert.pc = "done" /\ ~alert.isCorrectNetwork)
          => /\ alert.matched = 0 <=> alert.detectedNetwork = UnknownNetwork
             /\ alert.matched # 0 => alert.detectedNetwork.name = Catalog[alert.matched].name

\* the first entry of the second provider matched after both entries of
\* the first were probed, and the check ended without probing the rest
C20_Witness ==
    /\ alert.pc = "done"
    /\ alert.matched = Len(SONIC_NETWORKS) + 1
    /\ alert.probed = <<1, 2, 3>>
    /\ alert.detectedNetwork.name = "Solana Mainnet Beta"


\* ---------------------------------------------------------------------
\* C21

\* an add_item encoder has produced a payload from the arguments it was given
Encoded == codec.kind = "item" /\ codec.encoder # ""

\* C21: the payload an add-item script builds is the 8-byte tag, the id and
\* the price as 8 little-endian bytes each, the number of UTF-8 bytes of the
\* metadata_uri as 4 little-endian bytes and then exactly those bytes, with
\* nothing after them; and the other script builds the same bytes from the
\* same id, price and metadata_uri
C21_AddItemPayload ==
    Encoded =>
        LET a == codec.args
            p == codec.payload
            bytes == Utf8Encode(a.uri)
        IN  /\ Len(p) = 28 + Len(bytes)
            /\ SubSeq(p, 1, 8) = AddItemDiscriminator
            /\ FromLE(SubSeq(p, 9, 16)) = a.id
            /\ FromLE(SubSeq(p, 17, 24)) = a.price
            /\ FromLE(SubSeq(p, 25, 28)) = Len(bytes)
            /\ SubSeq(p, 29, Len(p)) = bytes
            /\ AddItemData(a.id, a.price, bytes) = p
            /\ AddItemWithMetadataData(a.id, a.price, bytes) = p

\* the metadata script has encoded an id of two bytes and a metadata_uri
\* whose UTF-8 bytes are more than its characters
C21_Witness ==
    /\ Encoded /\ codec.encoder = "addItemWithMetadata"
    /\ codec.args.id > 255
    /\ Len(Utf8Encode(codec.args.uri)) > Len(codec.args.uri)
    /\ Len(codec.payload) > 28



\* ---------------------------------------------------------------------
\* C22

\* the instruction for the shop program in the transaction an admin script
\* has built
AdminIx == admin.tx[Len(admin.tx)]

\* the address derived for the program from the given seeds
DerivedAddress(seeds) == FindProgramAddress(seeds, ProgramIdBytes)

\* C22: the initialize_shop instruction an admin script builds lists exactly
\* the admin as writable signer, the derived shop address as writable and the
\* system program read-only, in this order; the add_item instruction lists
\* exactly the admin as writable signer, the derived shop address as
\* writable, the item address derived from the id its arguments carry as
\* writable, and the system program read-only
C22_AdminAccountLists ==
    admin.tx # <<>> =>
        LET admin_ == [pubkey |-> AdminPublicKey, isSigner |-> TRUE, isWritable |-> TRUE]
            shop_ == [pubkey |-> DerivedAddress(<<SeedShop>>),
                      isSigner |-> FALSE, isWritable |-> TRUE]
            system_ == [pubkey |-> SystemProgramId, isSigner |-> FALSE, isWritable |-> FALSE]
            id == FromLE(SubSeq(AdminIx.data, 9, 16))
            item_ == [pubkey |-> DerivedAddress(<<SeedItem, LE(id, 8)>>),
                      isSigner |-> FALSE, isWritable |-> TRUE]
        IN  /\ AdminIx.programId = ShopProgramId
            /\ admin.op = "initializeShop" => AdminIx.keys = <<admin_, shop_, system_>>
            /\ admin.op \in {"addItem", "addItemWithMetadata"}
                   => AdminIx.keys = <<admin_, shop_, item_, system_>>
            /\ admin.op \in {"initializeShop", "addItem", "addItemWithMetadata"}

\* each kind of admin instruction has been built: here the shop client's
\* add_item, for an id that differs from its price
C22_Witness ==
    /\ admin.tx # <<>> /\ admin.op = "addItem"
    /\ FromLE(SubSeq(AdminIx.data, 9, 16)) # FromLE(SubSeq(AdminIx.data, 17, 24))
    /\ shop.exists



\* ---------------------------------------------------------------------
\* C23

\* the attempt in slot s ends in this step with the given outcome
EndsNow(s, outcome) == ReturnsNow(s) /\ runs'[s].outcome = outcome

\* C23: an attempt that ends as Confirmed has re-read the buyer's history
\* account after the confirmation and before it ends, and when that read
\* changes the local view the view then holds at least the records the
\* account had at the confirmation; an attempt that ends as Failed has made
\* no such re-read and the step in which it ends leaves the view as it was;
\* the view changes in no step other than the end of a Confirmed attempt or
\* the answer to the refresh of the mount effect
C23_RefreshAfterConfirmation ==
    /\ [](\A s \in Slots :
            LET r == runs[s] IN
            /\ (r.pc = "done" /\ r.outcome = "Confirmed")
                  => Before(r.log, "confirm", "refresh")
            /\ (r.pc = "done" /\ r.outcome = "Failed") => ~Has(r.log, "refresh")
            /\ Has(r.log, "refresh") => r.status \in {"ok", "err"})
    /\ [][/\ \A s \in Slots :
               /\ EndsNow(s, "Failed") => purchaseHistory' = purchaseHistory
               /\ EndsNow(s, "Confirmed") =>
                     /\ runs[s].pc = "refresh"
                     /\ purchaseHistory' # purchaseHistory
                           => /\ runs[s].path = "page"
                              /\ Len(purchaseHistory') >= runs[s].viewSince
          /\ purchaseHistory' # purchaseHistory
                => \/ \E s \in Slots : EndsNow(s, "Confirmed")
                   \/ refreshesPending' # refreshesPending]_vars

\* an attempt of the page has ended as Confirmed and the view shows the
\* record of its purchase, and another has ended as Failed after its
\* transaction was sent
C23_Witness ==
    /\ \E s \in Slots :
         /\ runs[s].path = "page" /\ runs[s].pc = "done"
         /\ runs[s].outcome = "Confirmed" /\ runs[s].status = "ok"
         /\ \E i \in 1..Len(purchaseHistory) : purchaseHistory[i].item_id = runs[s].itemId
    /\ \E s \in Slots :
         /\ runs[s].pc = "done" /\ runs[s].outcome = "Failed"
         /\ Has(runs[s].log, "send")



\* ---------------------------------------------------------------------
\* C24

\* the data the history decoder was given holds a whole user key, and it
\* is not the key of the connected wallet
OtherUsersAccount ==
    /\ Len(codec.data) >= 8 + PUBKEY_LEN
    /\ SubSeq(codec.data, 9, 8 + PUBKEY_LEN) # toBuffer(BuyerPublicKey)

\* C24: after a refresh that read a history account stored for a user other
\* than the connected buyer the local view is empty: no record of that
\* account and no record of an earlier view is in it
C24_OtherUsersHistoryIgnored ==
    (codec.pc = "done" /\ codec.decoder = "checkPurchaseHistory" /\ OtherUsersAccount)
        => purchaseHistory = <<>>

\* the refresh has read the whole account of another user, which holds two
\* records, and its parse ended without an error
C24_Witness ==
    /\ codec.pc = "done" /\ codec.decoder = "checkPurchaseHistory"
    /\ OtherUsersAccount
    /\ Len(codec.purchases) = 2 /\ Len(codec.data) = Len(codec.full)
    /\ codec.out.ok



\* ---------------------------------------------------------------------
\* C25

\* C25: in every purchase instruction a client has built, the account in
\* the admin position is the admin stored in the Shop account, and the
\* attempt has read the Shop account before it built the instruction
C25_AdminFromShopAccount ==
    \A s \in Slots :
        Built(s) =>
            /\ PurchaseIx(s).keys[4].pubkey = shop.admin
            /\ Has(runs[s].log, "getShop")

\* the purchase script has built and sent an instruction whose admin
\* position holds the key of its admin wallet file, which is not the admin
\* of the shop, without a read of the Shop account
C25_Witness ==
    \E s \in Slots :
        /\ Sent(s) /\ runs[s].path = "cli"
        /\ PurchaseIx(s).keys[4].pubkey # shop.admin
        /\ PurchaseIx(s).keys[4].pubkey \in AdminWalletFiles
        /\ ~Has(runs[s].log, "getShop")



\* ---------------------------------------------------------------------
\* C26

\* an attempt of the page for the item is in flight
PageInFlight(item) ==
    \E s \in Slots : InFlight(s) /\ runs[s].path = "page" /\ runs[s].itemId = item

\* C26: while an attempt of the page for an item is in flight the Purchase
\* button of that item is disabled, so that no second attempt for the item
\* can be started
C26_ButtonDisabledInFlight ==
    \A item \in ItemIds : PageInFlight(item) => ~ButtonEnabled(item)

\* attempts for two items are in flight on the page, the marker names the
\* item that was clicked last, and the button of the other item is enabled
\* with the wallet connected: a click on it starts handlePurchase again
C26_Witness ==
    \E s, t \in Slots :
        /\ InFlight(s) /\ runs[s].path = "page"
        /\ InFlight(t) /\ runs[t].path = "page"
        /\ runs[s].itemId # runs[t].itemId
        /\ isPurchasing = runs[t].itemId
        /\ ButtonEnabled(runs[s].itemId) /\ WalletReady



\* ---------------------------------------------------------------------
\* C27

\* two checks overlapped and both have ended, and the one that started
\* last found the wrong network and reported what it detected
BothChecksEnded ==
    /\ alert.earlier.pc = "done" /\ alert.pc = "done"
    /\ alert.detected # NoNetwork

NoRefreshInFlight ==
    /\ refreshesPending = <<>>
    /\ \A s \in Slots : runs[s].pc # "refresh"

\* C28: whenever no history refresh is in flight, the local view is empty
\* if no wallet is connected, and otherwise holds only records of the
\* history account of the connected wallet
C28_ViewOfConnectedWallet ==
    NoRefreshInFlight =>
        IF wallet.connected
        THEN \A i \in 1..Len(purchaseHistory) :
                \E j \in 1..Len(history[BuyerPublicKey].purchases) :
                    purchaseHistory[i].item_id
                        = ToNumber(history[BuyerPublicKey].purchases[j].item_id)
        ELSE purchaseHistory = <<>>

\* the wallet has disconnected after a purchase, the page has settled, and
\* the view still shows the record of the purchase
C28_Witness ==
    /\ ~wallet.connected
    /\ NoRefreshInFlight /\ fetchesPending = 0
    /\ \A s \in Slots : ~InFlight(s)
    /\ purchaseHistory # <<>>
    /\ \E item \in shopItems : isPurchased(item)



\* ---------------------------------------------------------------------
\* C29

\* the account the admin script that is running creates exists already
AccountToCreateExists ==
    IF admin.op = "initializeShop" THEN shop.exists ELSE items[admin.id].exists

\* C29: an admin script that holds a transaction to send has read the
\* address of the account it creates and found it empty: while it sends,
\* before the chain has executed anything of it, that account does not exist
C29_CreateOnlyIfAbsent ==
    (admin.pc = "send" /\ admin.tx # <<>>) => ~AccountToCreateExists

\* the shop client's add-item has built its transaction and is sending it
\* for an item id whose account exists
C29_Witness ==
    /\ admin.op = "addItem" /\ admin.pc = "send" /\ admin.tx # <<>>
    /\ items[admin.id].exists
    /\ getItemPDA(admin.id) = AdminIx.keys[3].pubkey



\* ---------------------------------------------------------------------
\* C30

\* the stored result and the warnings of the component
Stored(a) == <<a.isCorrectNetwork, a.detectedNetwork, a.toasts>>

\* the check with the given locals ends in this step because the read of
\* the live or of the target fingerprint threw: it ends before any probe,
\* and not because it found the target network
AbortsNow(c, d) ==
    /\ c.pc \in {"live", "target"} /\ d.pc = "done"
    /\ c.pc = "live" \/ c.genesisHash # GenesisHashOf(CURRENT_NETWORK)

\* C30: a probe of a catalog entry that fails does not end the check: the
\* entries are probed one after the other in catalog order, a failed entry
\* is never the detected one, and the check ends with the report of the
\* entry that matched or of Unknown Network when every entry with the live
\* fingerprint failed; a check that ends because the live or the target
\* fingerprint could not be read leaves the stored result as it was and
\* shows no warning
C30_ProbeFailuresSkipped ==
    /\ [](/\ \A i \in 1..Len(alert.probed) : alert.probed[i] = i
          /\ \A k \in alert.failed : k <= Len(alert.probed) /\ k # alert.matched
          /\ (alert.pc = "done" /\ alert.detected # NoNetwork)
                => IF alert.matched # 0
                   THEN /\ alert.detected.name = Catalog[alert.matched].name
                        /\ Len(alert.probed) = alert.matched
                   ELSE /\ alert.detected.name = "Unknown Network"
                        /\ Len(alert.probed) = Len(Catalog)
                        /\ \A k \in 1..Len(Catalog) :
                              GenesisHashOf(k) = alert.genesisHash => k \in alert.failed)
    /\ [][/\ (alert.pc = "probe" /\ alert'.pc = "done")
                => /\ alert'.detectedNetwork = alert'.detected
                   /\ alert'.toasts = alert.toasts + 1
          /\ (AbortsNow(alert, alert') \/ AbortsNow(alert.earlier, alert'.earlier))
                => Stored(alert') = Stored(alert)]_vars

\* the probe of a catalog entry failed, the check went on and a later entry
\* matched and is the stored result; the check that was started before it
\* has ended because its read of the live fingerprint threw
C30_Witness ==
    /\ alert.pc = "done" /\ alert.matched # 0
    /\ \E k \in alert.failed : k < alert.matched
    /\ alert.detectedNetwork.name = Catalog[alert.matched].name
    /\ alert.earlier.pc = "done" /\ alert.earlier.genesisHash = 0


====
